---- MODULE Spec2Model ----
(***************************************************************************)
(* Model of sslyze/plugins/openssl_cipher_suites/cipher_suites.py: the     *)
(* static name and key-size tables, the catalog build that runs when the   *)
(* class body of CipherSuitesRepository is executed (_parse_all_cipher_-   *)
(* suites), and the read accessor get_all_cipher_suites.                   *)
(*                                                                         *)
(* Names are TLA+ strings; the substring test of line 595/620 is computed  *)
(* on the characters of the name (Len and SubSeq on strings).              *)
(***************************************************************************)
EXTENDS Integers, Sequences, FiniteSets, TLC

VARIABLES
  pc,                                 \* position in the module's execution
  idx,                                \* position of the for loop of line 581 in its list
  engine,                             \* the cipher lists the two OpenSSL builds of nassl return
  requests,                           \* the set_cipher_list/get_cipher_list requests made so far
  tls_version_to_cipher_suites,       \* local dict of _parse_all_cipher_suites
  openssl_cipher_strings,             \* local of _parse_all_cipher_suites
  cipher_suites_from_legacy_openssl,  \* local of _parse_all_cipher_suites
  cipher_suites_from_modern_openssl,  \* local of _parse_all_cipher_suites
  _ALL_CIPHER_SUITES,                 \* class attribute of CipherSuitesRepository
  lookup,                             \* argument of the last get_all_cipher_suites call
  result,                             \* value returned by the last get_all_cipher_suites call
  error,                              \* exception that ended the module's execution
  previous,                           \* _ALL_CIPHER_SUITES of the previous execution of the module
  threads,                            \* where each thread is with its import of the module
  runs                                \* executions of the module started so far

vars == <<pc, idx, engine, requests, tls_version_to_cipher_suites, openssl_cipher_strings,
          cipher_suites_from_legacy_openssl, cipher_suites_from_modern_openssl,
          _ALL_CIPHER_SUITES, lookup, result, error, previous, threads, runs>>

(***************************************************************************)
(* Bounds of the model.                                                    *)
(***************************************************************************)
\* Most cipher names the OpenSSL builds return, summed over all their answers.
MaxEnumerated == 2
\* Most cipher names in the one answer that ranges over the whole tables (SpecTables).
MaxStrings == 1
\* threads that import the module
NumReaders == 2

(***************************************************************************)
(* Python values.                                                          *)
(***************************************************************************)
\* dict literal: the mapping of its key/value pairs
Dict(pairs) == [k \in {p[1] : p \in pairs} |-> (CHOOSE p \in pairs : p[1] = k)[2]]

\* list as a set of its elements (x in list)
Range(list) == {list[i] : i \in DOMAIN list}

\* str.__contains__: sub in s
Contains(s, sub) ==
  \E i \in 1..(Len(s) - Len(sub) + 1) : SubSeq(s, i, i + Len(sub) - 1) = sub

\* the empty dict
EmptyDict == <<>>

\* d[k] = v
DictSet(d, k, v) == [x \in (DOMAIN d) \cup {k} |-> IF x = k THEN v ELSE d[x]]

\* frozen dataclass CipherSuite
CipherSuite(name, openssl_name, is_anonymous, key_size) ==
  [name |-> name, openssl_name |-> openssl_name,
   is_anonymous |-> is_anonymous, key_size |-> key_size]

\* TlsVersionEnum members used by this module
SSL_2_0 == "SSL_2_0"
SSL_3_0 == "SSL_3_0"
TLS_1_0 == "TLS_1_0"
TLS_1_1 == "TLS_1_1"
TLS_1_2 == "TLS_1_2"
TLS_1_3 == "TLS_1_3"
TlsVersionEnum == {SSL_2_0, SSL_3_0, TLS_1_0, TLS_1_1, TLS_1_2, TLS_1_3}

(***************************************************************************)
(* The static tables.                                                      *)
(***************************************************************************)
(* cipher_suites.py lines 21-31 *)
_SSLV2_OPENSSL_TO_RFC_NAMES_MAPPING ==
  Dict({
    <<"RC4-MD5", "SSL_CK_RC4_128_WITH_MD5">>,
    <<"EXP-RC4-MD5", "SSL_CK_RC4_128_EXPORT40_WITH_MD5">>,
    <<"RC2-CBC-MD5", "SSL_CK_RC2_128_CBC_WITH_MD5">>,
    <<"EXP-RC2-CBC-MD5", "SSL_CK_RC2_128_CBC_EXPORT40_WITH_MD5">>,
    <<"IDEA-CBC-MD5", "SSL_CK_IDEA_128_CBC_WITH_MD5">>,
    <<"DES-CBC-MD5", "SSL_CK_DES_64_CBC_WITH_MD5">>,
    <<"DES-CBC3-MD5", "SSL_CK_DES_192_EDE3_CBC_WITH_MD5">>,
    <<"RC4-64-MD5", "SSL_CK_RC4_64_WITH_MD5">>,
    <<"NULL-MD5", "TLS_RSA_WITH_NULL_MD5">>
  })

(* cipher_suites.py lines 33-310 *)
_TLS_OPENSSL_TO_RFC_NAMES_MAPPING ==
  Dict({
    <<"NULL-MD5", "TLS_RSA_WITH_NULL_MD5">>,
    <<"NULL-SHA", "TLS_RSA_WITH_NULL_SHA">>,
    <<"EXP-RC4-MD5", "TLS_RSA_EXPORT_WITH_RC4_40_MD5">>,
    <<"RC4-MD5", "TLS_RSA_WITH_RC4_128_MD5">>,
    <<"RC4-SHA", "TLS_RSA_WITH_RC4_128_SHA">>,
    <<"EXP-RC2-CBC-MD5", "TLS_RSA_EXPORT_WITH_RC2_CBC_40_MD5">>,
    <<"IDEA-CBC-SHA", "TLS_RSA_WITH_IDEA_CBC_SHA">>,
    <<"EXP-DES-CBC-SHA", "TLS_RSA_EXPORT_WITH_DES40_CBC_SHA">>,
    <<"DES-CBC-SHA", "TLS_RSA_WITH_DES_CBC_SHA">>,
    <<"DES-CBC3-SHA", "TLS_RSA_WITH_3DES_EDE_CBC_SHA">>,
    <<"EXP-DH-DSS-DES-CBC-SHA", "TLS_DH_DSS_EXPORT_WITH_DES40_CBC_SHA">>,
    <<"DH-DSS-DES-CBC-SHA", "TLS_DH_DSS_WITH_DES_CBC_SHA">>,
    <<"DH-DSS-DES-CBC3-SHA", "TLS_DH_DSS_WITH_3DES_EDE_CBC_SHA">>,
    <<"EXP-DH-RSA-DES-CBC-SHA", "TLS_DH_RSA_EXPORT_WITH_DES40_CBC_SHA">>,
    <<"DH-RSA-DES-CBC-SHA", "TLS_DH_RSA_WITH_DES_CBC_SHA">>,
    <<"DH-RSA-DES-CBC3-SHA", "TLS_DH_RSA_WITH_3DES_EDE_CBC_SHA">>,
    <<"EXP-EDH-DSS-DES-CBC-SHA", "TLS_DHE_DSS_EXPORT_WITH_DES40_CBC_SHA">>,
    <<"EDH-DSS-DES-CBC-SHA", "TLS_DHE_DSS_WITH_DES_CBC_SHA">>,
    <<"EDH-DSS-DES-CBC3-SHA", "TLS_DHE_DSS_WITH_3DES_EDE_CBC_SHA">>,
    <<"EXP-EDH-RSA-DES-CBC-SHA", "TLS_DHE_RSA_EXPORT_WITH_DES40_CBC_SHA">>,
    <<"EDH-RSA-DES-CBC-SHA", "TLS_DHE_RSA_WITH_DES_CBC_SHA">>,
    <<"EDH-RSA-DES-CBC3-SHA", "TLS_DHE_RSA_WITH_3DES_EDE_CBC_SHA">>,
    <<"EXP-ADH-RC4-MD5", "TLS_DH_anon_EXPORT_WITH_RC4_40_MD5">>,
    <<"ADH-RC4-MD5", "TLS_DH_anon_WITH_RC4_128_MD5">>,
    <<"EXP-ADH-DES-CBC-SHA", "TLS_DH_anon_EXPORT_WITH_DES40_CBC_SHA">>,
    <<"ADH-DES-CBC-SHA", "TLS_DH_anon_WITH_DES_CBC_SHA">>,
    <<"ADH-DES-CBC3-SHA", "TLS_DH_anon_WITH_3DES_EDE_CBC_SHA">>,
    <<"KRB5-DES-CBC-SHA", "TLS_KRB5_WITH_DES_CBC_SHA">>,
    <<"KRB5-DES-CBC3-SHA", "TLS_KRB5_WITH_3DES_EDE_CBC_SHA">>,
    <<"KRB5-RC4-SHA", "TLS_KRB5_WITH_RC4_128_SHA">>,
    <<"KRB5-IDEA-CBC-SHA", "TLS_KRB5_WITH_IDEA_CBC_SHA">>,
    <<"KRB5-DES-CBC-MD5", "TLS_KRB5_WITH_DES_CBC_MD5">>,
    <<"KRB5-DES-CBC3-MD5", "TLS_KRB5_WITH_3DES_EDE_CBC_MD5">>,
    <<"KRB5-RC4-MD5", "TLS_KRB5_WITH_RC4_128_MD5">>,
    <<"KRB5-IDEA-CBC-MD5", "TLS_KRB5_WITH_IDEA_CBC_MD5">>,
    <<"EXP-KRB5-DES-CBC-SHA", "TLS_KRB5_EXPORT_WITH_DES_CBC_40_SHA">>,
    <<"EXP-KRB5-RC2-CBC-SHA", "TLS_KRB5_EXPORT_WITH_RC2_CBC_40_SHA">>,
    <<"EXP-KRB5-RC4-SHA", "TLS_KRB5_EXPORT_WITH_RC4_40_SHA">>,
    <<"EXP-KRB5-DES-CBC-MD5", "TLS_KRB5_EXPORT_WITH_DES_CBC_40_MD5">>,
    <<"EXP-KRB5-RC2-CBC-MD5", "TLS_KRB5_EXPORT_WITH_RC2_CBC_40_MD5">>,
    <<"EXP-KRB5-RC4-MD5", "TLS_KRB5_EXPORT_WITH_RC4_40_MD5">>,
    <<"AES128-SHA", "TLS_RSA_WITH_AES_128_CBC_SHA">>,
    <<"DH-DSS-AES128-SHA", "TLS_DH_DSS_WITH_AES_128_CBC_SHA">>,
    <<"DH-RSA-AES128-SHA", "TLS_DH_RSA_WITH_AES_128_CBC_SHA">>,
    <<"DHE-DSS-AES128-SHA", "TLS_DHE_DSS_WITH_AES_128_CBC_SHA">>,
    <<"DHE-RSA-AES128-SHA", "TLS_DHE_RSA_WITH_AES_128_CBC_SHA">>,
    <<"ADH-AES128-SHA", "TLS_DH_anon_WITH_AES_128_CBC_SHA">>,
    <<"AES256-SHA", "TLS_RSA_WITH_AES_256_CBC_SHA">>,
    <<"DH-DSS-AES256-SHA", "TLS_DH_DSS_WITH_AES_256_CBC_SHA">>,
    <<"DH-RSA-AES256-SHA", "TLS_DH_RSA_WITH_AES_256_CBC_SHA">>,
    <<"DHE-DSS-AES256-SHA", "TLS_DHE_DSS_WITH_AES_256_CBC_SHA">>,
    <<"DHE-RSA-AES256-SHA", "TLS_DHE_RSA_WITH_AES_256_CBC_SHA">>,
    <<"ADH-AES256-SHA", "TLS_DH_anon_WITH_AES_256_CBC_SHA">>,
    <<"NULL-SHA256", "TLS_RSA_WITH_NULL_SHA256">>,
    <<"AES128-SHA256", "TLS_RSA_WITH_AES_128_CBC_SHA256">>,
    <<"AES256-SHA256", "TLS_RSA_WITH_AES_256_CBC_SHA256">>,
    <<"DH-DSS-AES128-SHA256", "TLS_DH_DSS_WITH_AES_128_CBC_SHA256">>,
    <<"DH-RSA-AES128-SHA256", "TLS_DH_RSA_WITH_AES_128_CBC_SHA256">>,
    <<"DHE-DSS-AES128-SHA256", "TLS_DHE_DSS_WITH_AES_128_CBC_SHA256">>,
    <<"CAMELLIA128-SHA", "TLS_RSA_WITH_CAMELLIA_128_CBC_SHA">>,
    <<"DH-DSS-CAMELLIA128-SHA", "TLS_DH_DSS_WITH_CAMELLIA_128_CBC_SHA">>,
    <<"DH-RSA-CAMELLIA128-SHA", "TLS_DH_RSA_WITH_CAMELLIA_128_CBC_SHA">>,
    <<"DHE-DSS-CAMELLIA128-SHA", "TLS_DHE_DSS_WITH_CAMELLIA_128_CBC_SHA">>,
    <<"DHE-RSA-CAMELLIA128-SHA", "TLS_DHE_RSA_WITH_CAMELLIA_128_CBC_SHA">>,
    <<"ADH-CAMELLIA128-SHA", "TLS_DH_anon_WITH_CAMELLIA_128_CBC_SHA">>,
    <<"EXP1024-DES-CBC-SHA", "TLS_RSA_EXPORT1024_WITH_DES_CBC_SHA">>,
    <<"EXP1024-DHE-DSS-DES-CBC-SHA", "TLS_DHE_DSS_EXPORT1024_WITH_DES_CBC_SHA">>,
    <<"EXP1024-RC4-SHA", "TLS_RSA_EXPORT1024_WITH_RC4_56_SHA">>,
    <<"EXP1024-RC4-MD5", "TLS_RSA_EXPORT1024_WITH_RC4_56_MD5">>,
    <<"EXP1024-RC2-CBC-MD5", "TLS_RSA_EXPORT1024_WITH_RC2_CBC_56_MD5">>,
    <<"EXP1024-DHE-DSS-RC4-SHA", "TLS_DHE_DSS_EXPORT1024_WITH_RC4_56_SHA">>,
    <<"DHE-DSS-RC4-SHA", "TLS_DHE_DSS_WITH_RC4_128_SHA">>,
    <<"DHE-RSA-AES128-SHA256", "TLS_DHE_RSA_WITH_AES_128_CBC_SHA256">>,
    <<"DH-DSS-AES256-SHA256", "TLS_DH_DSS_WITH_AES_256_CBC_SHA256">>,
    <<"DH-RSA-AES256-SHA256", "TLS_DH_RSA_WITH_AES_256_CBC_SHA256">>,
    <<"DHE-DSS-AES256-SHA256", "TLS_DHE_DSS_WITH_AES_256_CBC_SHA256">>,
    <<"DHE-RSA-AES256-SHA256", "TLS_DHE_RSA_WITH_AES_256_CBC_SHA256">>,
    <<"ADH-AES128-SHA256", "TLS_DH_anon_WITH_AES_128_CBC_SHA256">>,
    <<"ADH-AES256-SHA256", "TLS_DH_anon_WITH_AES_256_CBC_SHA256">>,
    <<"GOST94-GOST89-GOST89", "TLS_GOSTR341094_WITH_28147_CNT_IMIT">>,
    <<"GOST2001-GOST89-GOST89", "TLS_GOSTR341001_WITH_28147_CNT_IMIT">>,
    <<"CAMELLIA256-SHA", "TLS_RSA_WITH_CAMELLIA_256_CBC_SHA">>,
    <<"DH-DSS-CAMELLIA256-SHA", "TLS_DH_DSS_WITH_CAMELLIA_256_CBC_SHA">>,
    <<"DH-RSA-CAMELLIA256-SHA", "TLS_DH_RSA_WITH_CAMELLIA_256_CBC_SHA">>,
    <<"DHE-DSS-CAMELLIA256-SHA", "TLS_DHE_DSS_WITH_CAMELLIA_256_CBC_SHA">>,
    <<"DHE-RSA-CAMELLIA256-SHA", "TLS_DHE_RSA_WITH_CAMELLIA_256_CBC_SHA">>,
    <<"ADH-CAMELLIA256-SHA", "TLS_DH_anon_WITH_CAMELLIA_256_CBC_SHA">>,
    <<"PSK-RC4-SHA", "TLS_PSK_WITH_RC4_128_SHA">>,
    <<"PSK-3DES-EDE-CBC-SHA", "TLS_PSK_WITH_3DES_EDE_CBC_SHA">>,
    <<"PSK-AES128-CBC-SHA", "TLS_PSK_WITH_AES_128_CBC_SHA">>,
    <<"PSK-AES256-CBC-SHA", "TLS_PSK_WITH_AES_256_CBC_SHA">>,
    <<"RSA-PSK-RC4-SHA", "TLS_RSA_PSK_WITH_RC4_128_SHA">>,
    <<"RSA-PSK-3DES-EDE-CBC-SHA", "TLS_RSA_PSK_WITH_3DES_EDE_CBC_SHA">>,
    <<"RSA-PSK-AES128-CBC-SHA", "TLS_RSA_PSK_WITH_AES_128_CBC_SHA">>,
    <<"RSA-PSK-AES256-CBC-SHA", "TLS_RSA_PSK_WITH_AES_256_CBC_SHA">>,
    <<"SEED-SHA", "TLS_RSA_WITH_SEED_CBC_SHA">>,
    <<"DH-DSS-SEED-SHA", "TLS_DH_DSS_WITH_SEED_CBC_SHA">>,
    <<"DH-RSA-SEED-SHA", "TLS_DH_RSA_WITH_SEED_CBC_SHA">>,
    <<"DHE-DSS-SEED-SHA", "TLS_DHE_DSS_WITH_SEED_CBC_SHA">>,
    <<"DHE-RSA-SEED-SHA", "TLS_DHE_RSA_WITH_SEED_CBC_SHA">>,
    <<"ADH-SEED-SHA", "TLS_DH_anon_WITH_SEED_CBC_SHA">>,
    <<"AES128-GCM-SHA256", "TLS_RSA_WITH_AES_128_GCM_SHA256">>,
    <<"AES256-GCM-SHA384", "TLS_RSA_WITH_AES_256_GCM_SHA384">>,
    <<"DHE-RSA-AES128-GCM-SHA256", "TLS_DHE_RSA_WITH_AES_128_GCM_SHA256">>,
    <<"DHE-RSA-AES256-GCM-SHA384", "TLS_DHE_RSA_WITH_AES_256_GCM_SHA384">>,
    <<"DH-RSA-AES128-GCM-SHA256", "TLS_DH_RSA_WITH_AES_128_GCM_SHA256">>,
    <<"DH-RSA-AES256-GCM-SHA384", "TLS_DH_RSA_WITH_AES_256_GCM_SHA384">>,
    <<"DHE-DSS-AES128-GCM-SHA256", "TLS_DHE_DSS_WITH_AES_128_GCM_SHA256">>,
    <<"DHE-DSS-AES256-GCM-SHA384", "TLS_DHE_DSS_WITH_AES_256_GCM_SHA384">>,
    <<"DH-DSS-AES128-GCM-SHA256", "TLS_DH_DSS_WITH_AES_128_GCM_SHA256">>,
    <<"DH-DSS-AES256-GCM-SHA384", "TLS_DH_DSS_WITH_AES_256_GCM_SHA384">>,
    <<"ADH-AES128-GCM-SHA256", "TLS_DH_anon_WITH_AES_128_GCM_SHA256">>,
    <<"ADH-AES256-GCM-SHA384", "TLS_DH_anon_WITH_AES_256_GCM_SHA384">>,
    <<"CAMELLIA128-SHA256", "TLS_RSA_WITH_CAMELLIA_128_CBC_SHA256">>,
    <<"DH-DSS-CAMELLIA128-SHA256", "TLS_DH_DSS_WITH_CAMELLIA_128_CBC_SHA256">>,
    <<"DH-RSA-CAMELLIA128-SHA256", "TLS_DH_RSA_WITH_CAMELLIA_128_CBC_SHA256">>,
    <<"DHE-DSS-CAMELLIA128-SHA256", "TLS_DHE_DSS_WITH_CAMELLIA_128_CBC_SHA256">>,
    <<"DHE-RSA-CAMELLIA128-SHA256", "TLS_DHE_RSA_WITH_CAMELLIA_128_CBC_SHA256">>,
    <<"ADH-CAMELLIA128-SHA256", "TLS_DH_anon_WITH_CAMELLIA_128_CBC_SHA256">>,
    <<"CAMELLIA256-SHA256", "TLS_RSA_WITH_CAMELLIA_256_CBC_SHA256">>,
    <<"DH-DSS-CAMELLIA256-SHA256", "TLS_DH_DSS_WITH_CAMELLIA_256_CBC_SHA256">>,
    <<"DH-RSA-CAMELLIA256-SHA256", "TLS_DH_RSA_WITH_CAMELLIA_256_CBC_SHA256">>,
    <<"DHE-DSS-CAMELLIA256-SHA256", "TLS_DHE_DSS_WITH_CAMELLIA_256_CBC_SHA256">>,
    <<"DHE-RSA-CAMELLIA256-SHA256", "TLS_DHE_RSA_WITH_CAMELLIA_256_CBC_SHA256">>,
    <<"ADH-CAMELLIA256-SHA256", "TLS_DH_anon_WITH_CAMELLIA_256_CBC_SHA256">>,
    <<"TLS_FALLBACK_SCSV", "TLS_FALLBACK_SCSV">>,
    <<"ECDH-ECDSA-NULL-SHA", "TLS_ECDH_ECDSA_WITH_NULL_SHA">>,
    <<"ECDH-ECDSA-RC4-SHA", "TLS_ECDH_ECDSA_WITH_RC4_128_SHA">>,
    <<"ECDH-ECDSA-DES-CBC3-SHA", "TLS_ECDH_ECDSA_WITH_3DES_EDE_CBC_SHA">>,
    <<"ECDH-ECDSA-AES128-SHA", "TLS_ECDH_ECDSA_WITH_AES_128_CBC_SHA">>,
    <<"ECDH-ECDSA-AES256-SHA", "TLS_ECDH_ECDSA_WITH_AES_256_CBC_SHA">>,
    <<"ECDHE-ECDSA-NULL-SHA", "TLS_ECDHE_ECDSA_WITH_NULL_SHA">>,
    <<"ECDHE-ECDSA-RC4-SHA", "TLS_ECDHE_ECDSA_WITH_RC4_128_SHA">>,
    <<"ECDHE-ECDSA-DES-CBC3-SHA", "TLS_ECDHE_ECDSA_WITH_3DES_EDE_CBC_SHA">>,
    <<"ECDHE-ECDSA-AES128-SHA", "TLS_ECDHE_ECDSA_WITH_AES_128_CBC_SHA">>,
    <<"ECDHE-ECDSA-AES256-SHA", "TLS_ECDHE_ECDSA_WITH_AES_256_CBC_SHA">>,
    <<"ECDH-RSA-NULL-SHA", "TLS_ECDH_RSA_WITH_NULL_SHA">>,
    <<"ECDH-RSA-RC4-SHA", "TLS_ECDH_RSA_WITH_RC4_128_SHA">>,
    <<"ECDH-RSA-DES-CBC3-SHA", "TLS_ECDH_RSA_WITH_3DES_EDE_CBC_SHA">>,
    <<"ECDH-RSA-AES128-SHA", "TLS_ECDH_RSA_WITH_AES_128_CBC_SHA">>,
    <<"ECDH-RSA-AES256-SHA", "TLS_ECDH_RSA_WITH_AES_256_CBC_SHA">>,
    <<"ECDHE-RSA-NULL-SHA", "TLS_ECDHE_RSA_WITH_NULL_SHA">>,
    <<"ECDHE-RSA-RC4-SHA", "TLS_ECDHE_RSA_WITH_RC4_128_SHA">>,
    <<"ECDHE-RSA-DES-CBC3-SHA", "TLS_ECDHE_RSA_WITH_3DES_EDE_CBC_SHA">>,
    <<"ECDHE-RSA-AES128-SHA", "TLS_ECDHE_RSA_WITH_AES_128_CBC_SHA">>,
    <<"ECDHE-RSA-AES256-SHA", "TLS_ECDHE_RSA_WITH_AES_256_CBC_SHA">>,
    <<"AECDH-NULL-SHA", "TLS_ECDH_anon_WITH_NULL_SHA">>,
    <<"AECDH-RC4-SHA", "TLS_ECDH_anon_WITH_RC4_128_SHA">>,
    <<"AECDH-DES-CBC3-SHA", "TLS_ECDH_anon_WITH_3DES_EDE_CBC_SHA">>,
    <<"AECDH-AES128-SHA", "TLS_ECDH_anon_WITH_AES_128_CBC_SHA">>,
    <<"AECDH-AES256-SHA", "TLS_ECDH_anon_WITH_AES_256_CBC_SHA">>,
    <<"SRP-3DES-EDE-CBC-SHA", "TLS_SRP_SHA_WITH_3DES_EDE_CBC_SHA">>,
    <<"SRP-RSA-3DES-EDE-CBC-SHA", "TLS_SRP_SHA_RSA_WITH_3DES_EDE_CBC_SHA">>,
    <<"SRP-DSS-3DES-EDE-CBC-SHA", "TLS_SRP_SHA_DSS_WITH_3DES_EDE_CBC_SHA">>,
    <<"SRP-AES-128-CBC-SHA", "TLS_SRP_SHA_WITH_AES_128_CBC_SHA">>,
    <<"SRP-RSA-AES-128-CBC-SHA", "TLS_SRP_SHA_RSA_WITH_AES_128_CBC_SHA">>,
    <<"SRP-DSS-AES-128-CBC-SHA", "TLS_SRP_SHA_DSS_WITH_AES_128_CBC_SHA">>,
    <<"SRP-AES-256-CBC-SHA", "TLS_SRP_SHA_WITH_AES_256_CBC_SHA">>,
    <<"SRP-RSA-AES-256-CBC-SHA", "TLS_SRP_SHA_RSA_WITH_AES_256_CBC_SHA">>,
    <<"SRP-DSS-AES-256-CBC-SHA", "TLS_SRP_SHA_DSS_WITH_AES_256_CBC_SHA">>,
    <<"ECDHE-ECDSA-AES128-SHA256", "TLS_ECDHE_ECDSA_WITH_AES_128_CBC_SHA256">>,
    <<"ECDHE-ECDSA-AES256-SHA384", "TLS_ECDHE_ECDSA_WITH_AES_256_CBC_SHA384">>,
    <<"ECDH-ECDSA-AES128-SHA256", "TLS_ECDH_ECDSA_WITH_AES_128_CBC_SHA256">>,
    <<"ECDH-ECDSA-AES256-SHA384", "TLS_ECDH_ECDSA_WITH_AES_256_CBC_SHA384">>,
    <<"ECDHE-RSA-AES128-SHA256", "TLS_ECDHE_RSA_WITH_AES_128_CBC_SHA256">>,
    <<"ECDHE-RSA-AES256-SHA384", "TLS_ECDHE_RSA_WITH_AES_256_CBC_SHA384">>,
    <<"ECDH-RSA-AES128-SHA256", "TLS_ECDH_RSA_WITH_AES_128_CBC_SHA256">>,
    <<"ECDH-RSA-AES256-SHA384", "TLS_ECDH_RSA_WITH_AES_256_CBC_SHA384">>,
    <<"ECDHE-ECDSA-AES128-GCM-SHA256", "TLS_ECDHE_ECDSA_WITH_AES_128_GCM_SHA256">>,
    <<"ECDHE-ECDSA-AES256-GCM-SHA384", "TLS_ECDHE_ECDSA_WITH_AES_256_GCM_SHA384">>,
    <<"ECDH-ECDSA-AES128-GCM-SHA256", "TLS_ECDH_ECDSA_WITH_AES_128_GCM_SHA256">>,
    <<"ECDH-ECDSA-AES256-GCM-SHA384", "TLS_ECDH_ECDSA_WITH_AES_256_GCM_SHA384">>,
    <<"ECDHE-RSA-AES128-GCM-SHA256", "TLS_ECDHE_RSA_WITH_AES_128_GCM_SHA256">>,
    <<"ECDHE-RSA-AES256-GCM-SHA384", "TLS_ECDHE_RSA_WITH_AES_256_GCM_SHA384">>,
    <<"ECDH-RSA-AES128-GCM-SHA256", "TLS_ECDH_RSA_WITH_AES_128_GCM_SHA256">>,
    <<"ECDH-RSA-AES256-GCM-SHA384", "TLS_ECDH_RSA_WITH_AES_256_GCM_SHA384">>,
    <<"ECDHE-ECDSA-CAMELLIA128-SHA256", "TLS_ECDHE_ECDSA_WITH_CAMELLIA_128_CBC_SHA256">>,
    <<"ECDHE-ECDSA-CAMELLIA256-SHA384", "TLS_ECDHE_ECDSA_WITH_CAMELLIA_256_CBC_SHA384">>,
    <<"ECDH-ECDSA-CAMELLIA128-SHA256", "TLS_ECDH_ECDSA_WITH_CAMELLIA_128_CBC_SHA256">>,
    <<"ECDH-ECDSA-CAMELLIA256-SHA384", "TLS_ECDH_ECDSA_WITH_CAMELLIA_256_CBC_SHA384">>,
    <<"ECDHE-RSA-CAMELLIA128-SHA256", "TLS_ECDHE_RSA_WITH_CAMELLIA_128_CBC_SHA256">>,
    <<"ECDHE-RSA-CAMELLIA256-SHA384", "TLS_ECDHE_RSA_WITH_CAMELLIA_256_CBC_SHA384">>,
    <<"ECDH-RSA-CAMELLIA128-SHA256", "TLS_ECDH_RSA_WITH_CAMELLIA_128_CBC_SHA256">>,
    <<"ECDH-RSA-CAMELLIA256-SHA384", "TLS_ECDH_RSA_WITH_CAMELLIA_256_CBC_SHA384">>,
    <<"ECDHE-RSA-CHACHA20-POLY1305", "TLS_ECDHE_RSA_WITH_CHACHA20_POLY1305_SHA256">>,
    <<"ECDHE-ECDSA-CHACHA20-POLY1305", "TLS_ECDHE_ECDSA_WITH_CHACHA20_POLY1305_SHA256">>,
    <<"DHE-RSA-CHACHA20-POLY1305", "TLS_DHE_RSA_WITH_CHACHA20_POLY1305_SHA256">>,
    <<"ECDHE-RSA-CHACHA20-POLY1305-OLD", "OLD_TLS_ECDHE_RSA_WITH_CHACHA20_POLY1305_SHA256">>,
    <<"ECDHE-ECDSA-CHACHA20-POLY1305-OLD", "OLD_TLS_ECDHE_ECDSA_WITH_CHACHA20_POLY1305_SHA256">>,
    <<"DHE-RSA-CHACHA20-POLY1305-OLD", "OLD_TLS_DHE_RSA_WITH_CHACHA20_POLY1305_SHA256">>,
    <<"DHE-RSA-DES-CBC3-SHA", "TLS_DHE_RSA_WITH_3DES_EDE_CBC_SHA">>,
    <<"DHE-DSS-DES-CBC3-SHA", "TLS_DHE_DSS_WITH_3DES_EDE_CBC_SHA">>,
    <<"AES128-CCM", "TLS_RSA_WITH_AES_128_CCM">>,
    <<"AES256-CCM", "TLS_RSA_WITH_AES_256_CCM">>,
    <<"DHE-RSA-AES128-CCM", "TLS_DHE_RSA_WITH_AES_128_CCM">>,
    <<"DHE-RSA-AES256-CCM", "TLS_DHE_RSA_WITH_AES_256_CCM">>,
    <<"AES128-CCM8", "TLS_RSA_WITH_AES_128_CCM_8">>,
    <<"AES256-CCM8", "TLS_RSA_WITH_AES_256_CCM_8">>,
    <<"DHE-RSA-AES128-CCM8", "TLS_DHE_RSA_WITH_AES_128_CCM_8">>,
    <<"DHE-RSA-AES256-CCM8", "TLS_DHE_RSA_WITH_AES_256_CCM_8">>,
    <<"ECDHE-ECDSA-AES128-CCM", "TLS_ECDHE_ECDSA_WITH_AES_128_CCM">>,
    <<"ECDHE-ECDSA-AES256-CCM", "TLS_ECDHE_ECDSA_WITH_AES_256_CCM">>,
    <<"ECDHE-ECDSA-AES128-CCM8", "TLS_ECDHE_ECDSA_WITH_AES_128_CCM_8">>,
    <<"ECDHE-ECDSA-AES256-CCM8", "TLS_ECDHE_ECDSA_WITH_AES_256_CCM_8">>,
    <<"ARIA128-GCM-SHA256", "TLS_RSA_WITH_ARIA_128_GCM_SHA256">>,
    <<"ARIA256-GCM-SHA384", "TLS_RSA_WITH_ARIA_256_GCM_SHA384">>,
    <<"DHE-DSS-ARIA128-GCM-SHA256", "TLS_DHE_DSS_WITH_ARIA_128_GCM_SHA256">>,
    <<"DHE-DSS-ARIA256-GCM-SHA384", "TLS_DHE_DSS_WITH_ARIA_256_GCM_SHA384">>,
    <<"DHE-PSK-3DES-EDE-CBC-SHA", "TLS_DHE_PSK_WITH_3DES_EDE_CBC_SHA">>,
    <<"DHE-PSK-AES128-CBC-SHA", "TLS_DHE_PSK_WITH_AES_128_CBC_SHA">>,
    <<"DHE-PSK-AES128-CBC-SHA256", "TLS_DHE_PSK_WITH_AES_128_CBC_SHA256">>,
    <<"DHE-PSK-AES128-CCM", "TLS_DHE_PSK_WITH_AES_128_CCM">>,
    <<"DHE-PSK-AES128-CCM8", "TLS_PSK_DHE_WITH_AES_128_CCM_8">>,
    <<"DHE-PSK-AES128-GCM-SHA256", "TLS_DHE_PSK_WITH_AES_128_GCM_SHA256">>,
    <<"DHE-PSK-AES256-CBC-SHA", "TLS_DHE_PSK_WITH_AES_256_CBC_SHA">>,
    <<"DHE-PSK-AES256-CBC-SHA384", "TLS_DHE_PSK_WITH_AES_256_CBC_SHA384">>,
    <<"DHE-PSK-AES256-CCM", "TLS_DHE_PSK_WITH_AES_256_CCM">>,
    <<"DHE-PSK-AES256-CCM8", "TLS_PSK_DHE_WITH_AES_256_CCM_8">>,
    <<"DHE-PSK-AES256-GCM-SHA384", "TLS_DHE_PSK_WITH_AES_256_GCM_SHA384">>,
    <<"DHE-PSK-ARIA128-GCM-SHA256", "TLS_DHE_PSK_WITH_ARIA_128_GCM_SHA256">>,
    <<"DHE-PSK-ARIA256-GCM-SHA384", "TLS_DHE_PSK_WITH_ARIA_256_GCM_SHA384">>,
    <<"DHE-PSK-CAMELLIA128-SHA256", "TLS_DHE_PSK_WITH_CAMELLIA_128_CBC_SHA256">>,
    <<"DHE-PSK-CAMELLIA256-SHA384", "TLS_DHE_PSK_WITH_CAMELLIA_256_CBC_SHA384">>,
    <<"DHE-PSK-CHACHA20-POLY1305", "TLS_DHE_PSK_WITH_CHACHA20_POLY1305_SHA256">>,
    <<"DHE-PSK-NULL-SHA", "TLS_DHE_PSK_WITH_NULL_SHA">>,
    <<"DHE-PSK-NULL-SHA256", "TLS_DHE_PSK_WITH_NULL_SHA256">>,
    <<"DHE-PSK-NULL-SHA384", "TLS_DHE_PSK_WITH_NULL_SHA384">>,
    <<"DHE-PSK-RC4-SHA", "TLS_DHE_PSK_WITH_RC4_128_SHA">>,
    <<"DHE-RSA-ARIA128-GCM-SHA256", "TLS_DHE_RSA_WITH_ARIA_128_GCM_SHA256">>,
    <<"DHE-RSA-ARIA256-GCM-SHA384", "TLS_DHE_RSA_WITH_ARIA_256_GCM_SHA384">>,
    <<"ECDHE-ARIA128-GCM-SHA256", "TLS_ECDHE_RSA_WITH_ARIA_128_GCM_SHA256">>,
    <<"ECDHE-ARIA256-GCM-SHA384", "TLS_ECDHE_RSA_WITH_ARIA_256_GCM_SHA384">>,
    <<"ECDHE-ECDSA-ARIA128-GCM-SHA256", "TLS_ECDHE_ECDSA_WITH_ARIA_128_GCM_SHA256">>,
    <<"ECDHE-ECDSA-ARIA256-GCM-SHA384", "TLS_ECDHE_ECDSA_WITH_ARIA_256_GCM_SHA384">>,
    <<"ECDHE-PSK-3DES-EDE-CBC-SHA", "TLS_ECDHE_PSK_WITH_3DES_EDE_CBC_SHA">>,
    <<"ECDHE-PSK-AES128-CBC-SHA", "TLS_ECDHE_PSK_WITH_AES_128_CBC_SHA">>,
    <<"ECDHE-PSK-AES128-CBC-SHA256", "TLS_ECDHE_PSK_WITH_AES_128_CBC_SHA256">>,
    <<"ECDHE-PSK-AES256-CBC-SHA", "TLS_ECDHE_PSK_WITH_AES_256_CBC_SHA">>,
    <<"ECDHE-PSK-AES256-CBC-SHA384", "TLS_ECDHE_PSK_WITH_AES_256_CBC_SHA384">>,
    <<"ECDHE-PSK-CAMELLIA128-SHA256", "TLS_ECDHE_PSK_WITH_CAMELLIA_128_CBC_SHA256">>,
    <<"ECDHE-PSK-CAMELLIA256-SHA384", "TLS_ECDHE_PSK_WITH_CAMELLIA_256_CBC_SHA384">>,
    <<"ECDHE-PSK-CHACHA20-POLY1305", "TLS_ECDHE_PSK_WITH_CHACHA20_POLY1305_SHA256">>,
    <<"ECDHE-PSK-NULL-SHA", "TLS_ECDHE_PSK_WITH_NULL_SHA">>,
    <<"ECDHE-PSK-NULL-SHA256", "TLS_ECDHE_PSK_WITH_NULL_SHA256">>,
    <<"ECDHE-PSK-NULL-SHA384", "TLS_ECDHE_PSK_WITH_NULL_SHA384">>,
    <<"ECDHE-PSK-RC4-SHA", "TLS_ECDHE_PSK_WITH_RC4_128_SHA">>,
    <<"GOST2001-NULL-GOST94", "TLS_GOSTR341001_WITH_NULL_GOSTR3411">>,
    <<"GOST94-NULL-GOST94", "TLS_GOSTR341094_WITH_NULL_GOSTR3411">>,
    <<"PSK-AES128-CBC-SHA256", "TLS_PSK_WITH_AES_128_CBC_SHA256">>,
    <<"PSK-AES128-CCM", "TLS_PSK_WITH_AES_128_CCM">>,
    <<"PSK-AES128-CCM8", "TLS_PSK_WITH_AES_128_CCM_8">>,
    <<"PSK-AES128-GCM-SHA256", "TLS_PSK_WITH_AES_128_GCM_SHA256">>,
    <<"PSK-AES256-CBC-SHA384", "TLS_PSK_WITH_AES_256_CBC_SHA384">>,
    <<"PSK-AES256-CCM", "TLS_PSK_WITH_AES_256_CCM">>,
    <<"PSK-AES256-CCM8", "TLS_PSK_WITH_AES_256_CCM_8">>,
    <<"PSK-AES256-GCM-SHA384", "TLS_PSK_WITH_AES_256_GCM_SHA384">>,
    <<"PSK-ARIA128-GCM-SHA256", "TLS_PSK_WITH_ARIA_128_GCM_SHA256">>,
    <<"PSK-ARIA256-GCM-SHA384", "TLS_PSK_WITH_ARIA_256_GCM_SHA384">>,
    <<"PSK-CAMELLIA128-SHA256", "TLS_PSK_WITH_CAMELLIA_128_CBC_SHA256">>,
    <<"PSK-CAMELLIA256-SHA384", "TLS_PSK_WITH_CAMELLIA_256_CBC_SHA384">>,
    <<"PSK-CHACHA20-POLY1305", "TLS_PSK_WITH_CHACHA20_POLY1305_SHA256">>,
    <<"PSK-NULL-SHA", "TLS_PSK_WITH_NULL_SHA">>,
    <<"PSK-NULL-SHA256", "TLS_PSK_WITH_NULL_SHA256">>,
    <<"PSK-NULL-SHA384", "TLS_PSK_WITH_NULL_SHA384">>,
    <<"RSA-PSK-AES128-CBC-SHA256", "TLS_RSA_PSK_WITH_AES_128_CBC_SHA256">>,
    <<"RSA-PSK-AES128-GCM-SHA256", "TLS_RSA_PSK_WITH_AES_128_GCM_SHA256">>,
    <<"RSA-PSK-AES256-CBC-SHA384", "TLS_RSA_PSK_WITH_AES_256_CBC_SHA384">>,
    <<"RSA-PSK-AES256-GCM-SHA384", "TLS_RSA_PSK_WITH_AES_256_GCM_SHA384">>,
    <<"RSA-PSK-ARIA128-GCM-SHA256", "TLS_RSA_PSK_WITH_ARIA_128_GCM_SHA256">>,
    <<"RSA-PSK-ARIA256-GCM-SHA384", "TLS_RSA_PSK_WITH_ARIA_256_GCM_SHA384">>,
    <<"RSA-PSK-CAMELLIA128-SHA256", "TLS_RSA_PSK_WITH_CAMELLIA_128_CBC_SHA256">>,
    <<"RSA-PSK-CAMELLIA256-SHA384", "TLS_RSA_PSK_WITH_CAMELLIA_256_CBC_SHA384">>,
    <<"RSA-PSK-CHACHA20-POLY1305", "TLS_RSA_PSK_WITH_CHACHA20_POLY1305_SHA256">>,
    <<"RSA-PSK-NULL-SHA", "TLS_RSA_PSK_WITH_NULL_SHA">>,
    <<"RSA-PSK-NULL-SHA256", "TLS_RSA_PSK_WITH_NULL_SHA256">>,
    <<"RSA-PSK-NULL-SHA384", "TLS_RSA_PSK_WITH_NULL_SHA384">>
  })

\* mutant: SSLv2 looked up in the table of the later versions
OneTableForAllVersions ==
  Dict({
    <<SSL_2_0, _TLS_OPENSSL_TO_RFC_NAMES_MAPPING>>,
    <<SSL_3_0, _TLS_OPENSSL_TO_RFC_NAMES_MAPPING>>,
    <<TLS_1_0, _TLS_OPENSSL_TO_RFC_NAMES_MAPPING>>,
    <<TLS_1_1, _TLS_OPENSSL_TO_RFC_NAMES_MAPPING>>,
    <<TLS_1_2, _TLS_OPENSSL_TO_RFC_NAMES_MAPPING>>
  })

(* cipher_suites.py lines 313-319 *)
_OPENSSL_TO_RFC_NAMES_MAPPING ==
  Dict({
    <<SSL_2_0, _SSLV2_OPENSSL_TO_RFC_NAMES_MAPPING>>,
    <<SSL_3_0, _TLS_OPENSSL_TO_RFC_NAMES_MAPPING>>,
    <<TLS_1_0, _TLS_OPENSSL_TO_RFC_NAMES_MAPPING>>,
    <<TLS_1_1, _TLS_OPENSSL_TO_RFC_NAMES_MAPPING>>,
    <<TLS_1_2, _TLS_OPENSSL_TO_RFC_NAMES_MAPPING>>
  })

(* cipher_suites.py lines 322-558 *)
_RFC_NAME_TO_KEY_SIZE_MAPPING ==
  Dict({
    <<"TLS_RSA_WITH_NULL_MD5", 0>>,
    <<"TLS_RSA_WITH_NULL_SHA", 0>>,
    <<"TLS_RSA_WITH_AES_128_CBC_SHA", 128>>,
    <<"TLS_DHE_DSS_WITH_AES_128_CBC_SHA", 128>>,
    <<"TLS_DHE_RSA_WITH_AES_128_CBC_SHA", 128>>,
    <<"TLS_DH_anon_WITH_AES_128_CBC_SHA", 128>>,
    <<"TLS_RSA_WITH_AES_256_CBC_SHA", 256>>,
    <<"TLS_DHE_DSS_WITH_AES_256_CBC_SHA", 256>>,
    <<"TLS_DHE_RSA_WITH_AES_256_CBC_SHA", 256>>,
    <<"TLS_DH_anon_WITH_AES_256_CBC_SHA", 256>>,
    <<"TLS_RSA_WITH_NULL_SHA256", 0>>,
    <<"TLS_RSA_WITH_AES_128_CBC_SHA256", 128>>,
    <<"TLS_RSA_WITH_AES_256_CBC_SHA256", 256>>,
    <<"TLS_DHE_DSS_WITH_AES_128_CBC_SHA256", 128>>,
    <<"TLS_RSA_WITH_CAMELLIA_128_CBC_SHA", 128>>,
    <<"TLS_DHE_DSS_WITH_CAMELLIA_128_CBC_SHA", 128>>,
    <<"TLS_DHE_RSA_WITH_CAMELLIA_128_CBC_SHA", 128>>,
    <<"TLS_DH_anon_WITH_CAMELLIA_128_CBC_SHA", 128>>,
    <<"TLS_DHE_RSA_WITH_AES_128_CBC_SHA256", 128>>,
    <<"TLS_DHE_DSS_WITH_AES_256_CBC_SHA256", 256>>,
    <<"TLS_DHE_RSA_WITH_AES_256_CBC_SHA256", 256>>,
    <<"TLS_DH_anon_WITH_AES_128_CBC_SHA256", 128>>,
    <<"TLS_DH_anon_WITH_AES_256_CBC_SHA256", 256>>,
    <<"TLS_RSA_WITH_CAMELLIA_256_CBC_SHA", 256>>,
    <<"TLS_DHE_DSS_WITH_CAMELLIA_256_CBC_SHA", 256>>,
    <<"TLS_DHE_RSA_WITH_CAMELLIA_256_CBC_SHA", 256>>,
    <<"TLS_DH_anon_WITH_CAMELLIA_256_CBC_SHA", 256>>,
    <<"TLS_PSK_WITH_AES_128_CBC_SHA", 128>>,
    <<"TLS_PSK_WITH_AES_256_CBC_SHA", 256>>,
    <<"TLS_RSA_PSK_WITH_AES_128_CBC_SHA", 128>>,
    <<"TLS_RSA_PSK_WITH_AES_256_CBC_SHA", 256>>,
    <<"TLS_RSA_WITH_SEED_CBC_SHA", 128>>,
    <<"TLS_DHE_DSS_WITH_SEED_CBC_SHA", 128>>,
    <<"TLS_DHE_RSA_WITH_SEED_CBC_SHA", 128>>,
    <<"TLS_DH_anon_WITH_SEED_CBC_SHA", 128>>,
    <<"TLS_RSA_WITH_AES_128_GCM_SHA256", 128>>,
    <<"TLS_RSA_WITH_AES_256_GCM_SHA384", 256>>,
    <<"TLS_DHE_RSA_WITH_AES_128_GCM_SHA256", 128>>,
    <<"TLS_DHE_RSA_WITH_AES_256_GCM_SHA384", 256>>,
    <<"TLS_DHE_DSS_WITH_AES_128_GCM_SHA256", 128>>,
    <<"TLS_DHE_DSS_WITH_AES_256_GCM_SHA384", 256>>,
    <<"TLS_DH_anon_WITH_AES_128_GCM_SHA256", 128>>,
    <<"TLS_DH_anon_WITH_AES_256_GCM_SHA384", 256>>,
    <<"TLS_RSA_WITH_CAMELLIA_128_CBC_SHA256", 128>>,
    <<"TLS_DHE_DSS_WITH_CAMELLIA_128_CBC_SHA256", 128>>,
    <<"TLS_DHE_RSA_WITH_CAMELLIA_128_CBC_SHA256", 128>>,
    <<"TLS_DH_anon_WITH_CAMELLIA_128_CBC_SHA256", 128>>,
    <<"TLS_RSA_WITH_CAMELLIA_256_CBC_SHA256", 256>>,
    <<"TLS_DHE_DSS_WITH_CAMELLIA_256_CBC_SHA256", 256>>,
    <<"TLS_DHE_RSA_WITH_CAMELLIA_256_CBC_SHA256", 256>>,
    <<"TLS_DH_anon_WITH_CAMELLIA_256_CBC_SHA256", 256>>,
    <<"TLS_ECDHE_ECDSA_WITH_NULL_SHA", 0>>,
    <<"TLS_ECDHE_ECDSA_WITH_AES_128_CBC_SHA", 128>>,
    <<"TLS_ECDHE_ECDSA_WITH_AES_256_CBC_SHA", 256>>,
    <<"TLS_ECDHE_RSA_WITH_NULL_SHA", 0>>,
    <<"TLS_ECDHE_RSA_WITH_AES_128_CBC_SHA", 128>>,
    <<"TLS_ECDHE_RSA_WITH_AES_256_CBC_SHA", 256>>,
    <<"TLS_ECDH_anon_WITH_NULL_SHA", 0>>,
    <<"TLS_ECDH_anon_WITH_AES_128_CBC_SHA", 128>>,
    <<"TLS_ECDH_anon_WITH_AES_256_CBC_SHA", 256>>,
    <<"TLS_SRP_SHA_WITH_AES_128_CBC_SHA", 128>>,
    <<"TLS_SRP_SHA_RSA_WITH_AES_128_CBC_SHA", 128>>,
    <<"TLS_SRP_SHA_DSS_WITH_AES_128_CBC_SHA", 128>>,
    <<"TLS_SRP_SHA_WITH_AES_256_CBC_SHA", 256>>,
    <<"TLS_SRP_SHA_RSA_WITH_AES_256_CBC_SHA", 256>>,
    <<"TLS_SRP_SHA_DSS_WITH_AES_256_CBC_SHA", 256>>,
    <<"TLS_ECDHE_ECDSA_WITH_AES_128_CBC_SHA256", 128>>,
    <<"TLS_ECDHE_ECDSA_WITH_AES_256_CBC_SHA384", 256>>,
    <<"TLS_ECDHE_RSA_WITH_AES_128_CBC_SHA256", 128>>,
    <<"TLS_ECDHE_RSA_WITH_AES_256_CBC_SHA384", 256>>,
    <<"TLS_ECDHE_ECDSA_WITH_AES_128_GCM_SHA256", 128>>,
    <<"TLS_ECDHE_ECDSA_WITH_AES_256_GCM_SHA384", 256>>,
    <<"TLS_ECDHE_RSA_WITH_AES_128_GCM_SHA256", 128>>,
    <<"TLS_ECDHE_RSA_WITH_AES_256_GCM_SHA384", 256>>,
    <<"TLS_ECDHE_ECDSA_WITH_CAMELLIA_128_CBC_SHA256", 128>>,
    <<"TLS_ECDHE_ECDSA_WITH_CAMELLIA_256_CBC_SHA384", 256>>,
    <<"TLS_ECDHE_RSA_WITH_CAMELLIA_128_CBC_SHA256", 128>>,
    <<"TLS_ECDHE_RSA_WITH_CAMELLIA_256_CBC_SHA384", 256>>,
    <<"TLS_ECDHE_RSA_WITH_CHACHA20_POLY1305_SHA256", 256>>,
    <<"TLS_ECDHE_ECDSA_WITH_CHACHA20_POLY1305_SHA256", 256>>,
    <<"TLS_DHE_RSA_WITH_CHACHA20_POLY1305_SHA256", 256>>,
    <<"RSA_WITH_AES_128_CCM", 128>>,
    <<"RSA_WITH_AES_256_CCM", 256>>,
    <<"DHE_RSA_WITH_AES_128_CCM", 128>>,
    <<"TLS_DHE_RSA_WITH_AES_256_CCM", 256>>,
    <<"RSA_WITH_AES_128_CCM_8", 128>>,
    <<"RSA_WITH_AES_256_CCM_8", 256>>,
    <<"DHE_RSA_WITH_AES_128_CCM_8", 128>>,
    <<"DHE_RSA_WITH_AES_256_CCM_8", 256>>,
    <<"ECDHE_ECDSA_WITH_AES_128_CCM", 128>>,
    <<"ECDHE_ECDSA_WITH_AES_256_CCM", 256>>,
    <<"ECDHE_ECDSA_WITH_AES_128_CCM_8", 128>>,
    <<"ECDHE_ECDSA_WITH_AES_256_CCM_8", 256>>,
    <<"TLS_RSA_WITH_RC4_128_SHA", 128>>,
    <<"TLS_RSA_WITH_IDEA_CBC_SHA", 128>>,
    <<"TLS_RSA_EXPORT_WITH_DES40_CBC_SHA", 40>>,
    <<"TLS_RSA_WITH_DES_CBC_SHA", 56>>,
    <<"TLS_RSA_WITH_3DES_EDE_CBC_SHA", 168>>,
    <<"TLS_DH_DSS_WITH_DES_CBC_SHA", 56>>,
    <<"TLS_DH_DSS_WITH_3DES_EDE_CBC_SHA", 168>>,
    <<"TLS_DH_RSA_WITH_DES_CBC_SHA", 56>>,
    <<"TLS_DH_RSA_WITH_3DES_EDE_CBC_SHA", 168>>,
    <<"TLS_DHE_DSS_EXPORT_WITH_DES40_CBC_SHA", 40>>,
    <<"TLS_DHE_DSS_WITH_DES_CBC_SHA", 56>>,
    <<"TLS_DHE_DSS_WITH_3DES_EDE_CBC_SHA", 168>>,
    <<"TLS_DHE_RSA_EXPORT_WITH_DES40_CBC_SHA", 40>>,
    <<"TLS_DHE_RSA_WITH_DES_CBC_SHA", 56>>,
    <<"TLS_DHE_RSA_WITH_3DES_EDE_CBC_SHA", 168>>,
    <<"TLS_DH_anon_EXPORT_WITH_RC4_40_MD5", 40>>,
    <<"TLS_DH_anon_WITH_RC4_128_MD5", 128>>,
    <<"TLS_DH_anon_EXPORT_WITH_DES40_CBC_SHA", 40>>,
    <<"TLS_DH_anon_WITH_DES_CBC_SHA", 56>>,
    <<"TLS_DH_anon_WITH_3DES_EDE_CBC_SHA", 168>>,
    <<"TLS_DH_DSS_WITH_AES_128_CBC_SHA", 128>>,
    <<"TLS_DH_RSA_WITH_AES_128_CBC_SHA", 128>>,
    <<"TLS_DH_DSS_WITH_AES_256_CBC_SHA", 256>>,
    <<"TLS_DH_RSA_WITH_AES_256_CBC_SHA", 256>>,
    <<"TLS_DH_DSS_WITH_AES_128_CBC_SHA256", 128>>,
    <<"TLS_DH_RSA_WITH_AES_128_CBC_SHA256", 128>>,
    <<"TLS_DH_DSS_WITH_CAMELLIA_128_CBC_SHA", 128>>,
    <<"TLS_DH_RSA_WITH_CAMELLIA_128_CBC_SHA", 128>>,
    <<"TLS_DH_DSS_WITH_AES_256_CBC_SHA256", 256>>,
    <<"TLS_DH_RSA_WITH_AES_256_CBC_SHA256", 256>>,
    <<"TLS_DH_DSS_WITH_CAMELLIA_256_CBC_SHA", 256>>,
    <<"TLS_DH_RSA_WITH_CAMELLIA_256_CBC_SHA", 256>>,
    <<"TLS_PSK_WITH_RC4_128_SHA", 128>>,
    <<"TLS_PSK_WITH_3DES_EDE_CBC_SHA", 168>>,
    <<"TLS_DH_DSS_WITH_SEED_CBC_SHA", 128>>,
    <<"TLS_DH_RSA_WITH_SEED_CBC_SHA", 128>>,
    <<"TLS_DH_RSA_WITH_AES_128_GCM_SHA256", 128>>,
    <<"TLS_DH_RSA_WITH_AES_256_GCM_SHA384", 256>>,
    <<"TLS_DH_DSS_WITH_AES_128_GCM_SHA256", 128>>,
    <<"TLS_DH_DSS_WITH_AES_256_GCM_SHA384", 256>>,
    <<"TLS_ECDH_ECDSA_WITH_NULL_SHA", 0>>,
    <<"TLS_ECDH_ECDSA_WITH_RC4_128_SHA", 128>>,
    <<"TLS_ECDH_ECDSA_WITH_3DES_EDE_CBC_SHA", 168>>,
    <<"TLS_ECDH_ECDSA_WITH_AES_128_CBC_SHA", 128>>,
    <<"TLS_ECDH_ECDSA_WITH_AES_256_CBC_SHA", 256>>,
    <<"TLS_ECDHE_ECDSA_WITH_RC4_128_SHA", 128>>,
    <<"TLS_ECDHE_ECDSA_WITH_3DES_EDE_CBC_SHA", 168>>,
    <<"TLS_ECDH_RSA_WITH_NULL_SHA", 0>>,
    <<"TLS_ECDH_RSA_WITH_RC4_128_SHA", 128>>,
    <<"TLS_ECDH_RSA_WITH_3DES_EDE_CBC_SHA", 168>>,
    <<"TLS_ECDH_RSA_WITH_AES_128_CBC_SHA", 128>>,
    <<"TLS_ECDH_RSA_WITH_AES_256_CBC_SHA", 256>>,
    <<"TLS_ECDHE_RSA_WITH_RC4_128_SHA", 128>>,
    <<"TLS_ECDHE_RSA_WITH_3DES_EDE_CBC_SHA", 168>>,
    <<"TLS_ECDH_anon_WITH_RC4_128_SHA", 128>>,
    <<"TLS_ECDH_anon_WITH_3DES_EDE_CBC_SHA", 168>>,
    <<"TLS_SRP_SHA_WITH_3DES_EDE_CBC_SHA", 168>>,
    <<"TLS_SRP_SHA_RSA_WITH_3DES_EDE_CBC_SHA", 168>>,
    <<"TLS_SRP_SHA_DSS_WITH_3DES_EDE_CBC_SHA", 168>>,
    <<"TLS_ECDH_ECDSA_WITH_AES_128_CBC_SHA256", 128>>,
    <<"TLS_ECDH_ECDSA_WITH_AES_256_CBC_SHA384", 256>>,
    <<"TLS_ECDH_RSA_WITH_AES_128_CBC_SHA256", 128>>,
    <<"TLS_ECDH_RSA_WITH_AES_256_CBC_SHA384", 256>>,
    <<"TLS_ECDH_ECDSA_WITH_AES_128_GCM_SHA256", 128>>,
    <<"TLS_ECDH_ECDSA_WITH_AES_256_GCM_SHA384", 256>>,
    <<"TLS_ECDH_RSA_WITH_AES_128_GCM_SHA256", 128>>,
    <<"TLS_ECDH_RSA_WITH_AES_256_GCM_SHA384", 256>>,
    <<"TLS_RSA_EXPORT_WITH_RC4_40_MD5", 40>>,
    <<"TLS_RSA_WITH_RC4_128_MD5", 128>>,
    <<"TLS_RSA_EXPORT_WITH_RC2_CBC_40_MD5", 40>>,
    <<"TLS_DH_DSS_EXPORT_WITH_DES40_CBC_SHA", 40>>,
    <<"TLS_DH_RSA_EXPORT_WITH_DES40_CBC_SHA", 40>>,
    <<"TLS_KRB5_WITH_RC4_128_SHA", 128>>,
    <<"TLS_KRB5_WITH_RC4_128_MD5", 128>>,
    <<"TLS_KRB5_EXPORT_WITH_DES_CBC_40_SHA", 40>>,
    <<"TLS_KRB5_EXPORT_WITH_RC2_CBC_40_SHA", 40>>,
    <<"TLS_KRB5_EXPORT_WITH_RC4_40_SHA", 40>>,
    <<"TLS_KRB5_EXPORT_WITH_DES_CBC_40_MD5", 40>>,
    <<"TLS_KRB5_EXPORT_WITH_RC2_CBC_40_MD5", 40>>,
    <<"TLS_KRB5_EXPORT_WITH_RC4_40_MD5", 40>>,
    <<"TLS_RSA_EXPORT1024_WITH_RC4_56_SHA", 56>>,
    <<"TLS_RSA_EXPORT1024_WITH_RC4_56_MD5", 56>>,
    <<"TLS_RSA_EXPORT1024_WITH_RC2_CBC_56_MD5", 56>>,
    <<"TLS_DHE_DSS_EXPORT1024_WITH_RC4_56_SHA", 56>>,
    <<"TLS_DHE_DSS_WITH_RC4_128_SHA", 128>>,
    <<"TLS_RSA_PSK_WITH_RC4_128_SHA", 128>>,
    <<"TLS_DH_DSS_WITH_CAMELLIA_128_CBC_SHA256", 128>>,
    <<"TLS_DH_RSA_WITH_CAMELLIA_128_CBC_SHA256", 128>>,
    <<"TLS_DH_DSS_WITH_CAMELLIA_256_CBC_SHA256", 256>>,
    <<"TLS_DH_RSA_WITH_CAMELLIA_256_CBC_SHA256", 256>>,
    <<"TLS_ECDH_ECDSA_WITH_CAMELLIA_128_CBC_SHA256", 128>>,
    <<"TLS_ECDH_ECDSA_WITH_CAMELLIA_256_CBC_SHA384", 256>>,
    <<"TLS_ECDH_RSA_WITH_CAMELLIA_128_CBC_SHA256", 128>>,
    <<"TLS_ECDH_RSA_WITH_CAMELLIA_256_CBC_SHA384", 256>>,
    <<"OLD_TLS_ECDHE_RSA_WITH_CHACHA20_POLY1305_SHA256", 256>>,
    <<"OLD_TLS_ECDHE_ECDSA_WITH_CHACHA20_POLY1305_SHA256", 256>>,
    <<"OLD_TLS_DHE_RSA_WITH_CHACHA20_POLY1305_SHA256", 256>>,
    <<"TLS_KRB5_WITH_DES_CBC_SHA", 56>>,
    <<"TLS_KRB5_WITH_3DES_EDE_CBC_SHA", 168>>,
    <<"TLS_KRB5_WITH_IDEA_CBC_SHA", 128>>,
    <<"TLS_KRB5_WITH_DES_CBC_MD5", 56>>,
    <<"TLS_KRB5_WITH_3DES_EDE_CBC_MD5", 168>>,
    <<"TLS_KRB5_WITH_IDEA_CBC_MD5", 128>>,
    <<"TLS_RSA_EXPORT1024_WITH_DES_CBC_SHA", 56>>,
    <<"TLS_DHE_DSS_EXPORT1024_WITH_DES_CBC_SHA", 56>>,
    <<"TLS_GOSTR341094_WITH_28147_CNT_IMIT", 256>>,
    <<"TLS_GOSTR341001_WITH_28147_CNT_IMIT", 256>>,
    <<"TLS_RSA_PSK_WITH_3DES_EDE_CBC_SHA", 168>>,
    <<"TLS_AES_256_GCM_SHA384", 256>>,
    <<"TLS_CHACHA20_POLY1305_SHA256", 256>>,
    <<"TLS_AES_128_GCM_SHA256", 128>>,
    <<"TLS_ECDHE_ECDSA_WITH_ARIA_256_GCM_SHA384", 256>>,
    <<"TLS_ECDHE_RSA_WITH_ARIA_256_GCM_SHA384", 256>>,
    <<"TLS_DHE_DSS_WITH_ARIA_256_GCM_SHA384", 256>>,
    <<"TLS_DHE_RSA_WITH_ARIA_256_GCM_SHA384", 256>>,
    <<"TLS_ECDHE_ECDSA_WITH_ARIA_128_GCM_SHA256", 128>>,
    <<"TLS_ECDHE_RSA_WITH_ARIA_128_GCM_SHA256", 128>>,
    <<"TLS_DHE_DSS_WITH_ARIA_128_GCM_SHA256", 128>>,
    <<"TLS_DHE_RSA_WITH_ARIA_128_GCM_SHA256", 256>>,
    <<"TLS_RSA_WITH_ARIA_256_GCM_SHA384", 256>>,
    <<"TLS_RSA_WITH_ARIA_128_GCM_SHA256", 128>>,
    <<"TLS_RSA_WITH_AES_256_CCM", 256>>,
    <<"TLS_ECDHE_ECDSA_WITH_AES_128_CCM", 128>>,
    <<"TLS_DHE_RSA_WITH_AES_128_CCM", 128>>,
    <<"TLS_RSA_WITH_AES_128_CCM", 128>>,
    <<"TLS_RSA_WITH_AES_256_CCM_8", 128>>,
    <<"TLS_ECDHE_ECDSA_WITH_AES_256_CCM", 256>>,
    <<"TLS_ECDHE_ECDSA_WITH_AES_256_CCM_8", 256>>,
    <<"TLS_DHE_RSA_WITH_AES_128_CCM_8", 128>>,
    <<"TLS_DHE_RSA_WITH_AES_256_CCM_8", 256>>,
    <<"TLS_RSA_WITH_AES_128_CCM_8", 128>>,
    <<"TLS_ECDHE_ECDSA_WITH_AES_128_CCM_8", 128>>,
    <<"TLS_AES_128_CCM_8_SHA256", 128>>,
    <<"TLS_AES_128_CCM_SHA256", 128>>,
    <<"SSL_CK_RC4_128_WITH_MD5", 128>>,
    <<"SSL_CK_RC4_128_EXPORT40_WITH_MD5", 40>>,
    <<"SSL_CK_RC2_128_CBC_WITH_MD5", 128>>,
    <<"SSL_CK_RC2_128_CBC_EXPORT40_WITH_MD5", 40>>,
    <<"SSL_CK_IDEA_128_CBC_WITH_MD5", 128>>,
    <<"SSL_CK_DES_64_CBC_WITH_MD5", 56>>,
    <<"SSL_CK_DES_192_EDE3_CBC_WITH_MD5", 168>>,
    <<"SSL_CK_RC4_64_WITH_MD5", 64>>
  })

(* cipher_suites.py lines 562-568 *)
_TLS_1_3_CIPHER_SUITES ==
  << "TLS_AES_128_GCM_SHA256",
     "TLS_AES_128_CCM_SHA256",
     "TLS_AES_256_GCM_SHA384",
     "TLS_AES_128_CCM_8_SHA256",
     "TLS_CHACHA20_POLY1305_SHA256" >>


(***************************************************************************)
(* The OpenSSL builds behind nassl's LegacySslClient and SslClient.        *)
(***************************************************************************)
LEGACY == "LegacySslClient"
MODERN == "SslClient"

\* the cipher string of lines 574 and 604
CIPHER_LIST == "ALL:COMPLEMENTOFALL:-PSK:-SRP"

\* mutant: the loop leaves SSL 2.0 out
LoopWithoutSsl2 == <<SSL_3_0, TLS_1_0, TLS_1_1>>

\* the list the for loop of line 581 runs over
LOOP_VERSIONS == <<SSL_2_0, SSL_3_0, TLS_1_0, TLS_1_1>>

\* the (client, version) pairs the build creates a client for
Calls == {<<LEGACY, LOOP_VERSIONS[i]>> : i \in DOMAIN LOOP_VERSIONS}
           \cup {<<LEGACY, TLS_1_2>>, <<MODERN, TLS_1_2>>}

\* every cipher name of the tables and of the TLS 1.3 list
AllNativeNames ==
  (DOMAIN _SSLV2_OPENSSL_TO_RFC_NAMES_MAPPING) \cup (DOMAIN _TLS_OPENSSL_TO_RFC_NAMES_MAPPING)
    \cup Range(_TLS_1_3_CIPHER_SUITES)

\* the cipher names the OpenSSL builds answer with in Spec: in both tables
\* (RC4-MD5, NULL-MD5), in the SSLv2 table only (DES-CBC3-MD5), two spellings
\* of one suite (EDH-/DHE-DSS-DES-CBC3-SHA), an anonymous suite, a suite with
\* no key size (GOST2001-NULL-GOST94) and a TLS 1.3 suite
EngineNames ==
  {"RC4-MD5", "NULL-MD5", "DES-CBC3-MD5", "EDH-DSS-DES-CBC3-SHA", "DHE-DSS-DES-CBC3-SHA",
   "ADH-AES128-SHA", "GOST2001-NULL-GOST94", "TLS_AES_128_GCM_SHA256"}

\* an OpenSSL build that supports no cipher at all
NoCiphers == [c \in Calls |-> {}]

\* the answers of the OpenSSL builds that hold at most k names of `names` in all
RECURSIVE Engines(_, _)
Engines(names, k) ==
  IF k = 0 THEN {NoCiphers}
  ELSE LET E == Engines(names, k - 1)
       IN  E \cup {[e EXCEPT ![c] = @ \cup {n}] : e \in E, c \in Calls, n \in names}

\* the subsets of S of at most k elements
RECURSIVE BoundedSubsets(_, _)
BoundedSubsets(S, k) ==
  IF k = 0 THEN {{}}
  ELSE LET B == BoundedSubsets(S, k - 1)
       IN  B \cup {T \cup {x} : T \in B, x \in S}

(***************************************************************************)
(* Translation of one OpenSSL cipher name (lines 590-598 and 615-623).     *)
(***************************************************************************)
\* d[k]: the value, or KeyError raised
GetItem(d, k) ==
  IF k \in DOMAIN d THEN [raised |-> FALSE, value |-> d[k]] ELSE [raised |-> TRUE]

\* lines 590 and 615: _OPENSSL_TO_RFC_NAMES_MAPPING[tls_version][cipher_suite_openssl_name]
RfcName(tls_version, cipher_suite_openssl_name) ==
  GetItem(_OPENSSL_TO_RFC_NAMES_MAPPING[tls_version], cipher_suite_openssl_name)

\* mutant: the table gives triple DES of SSLv2 its nominal 192 bits
KeySizeNominal3Des(cipher_suite_rfc_name) ==
  IF cipher_suite_rfc_name = "SSL_CK_DES_192_EDE3_CBC_WITH_MD5"
  THEN [raised |-> FALSE, value |-> 192]
  ELSE GetItem(_RFC_NAME_TO_KEY_SIZE_MAPPING, cipher_suite_rfc_name)

\* mutant: _RFC_NAME_TO_KEY_SIZE_MAPPING.get(cipher_suite_rfc_name, 0)
KeySizeWithDefault(cipher_suite_rfc_name) ==
  IF cipher_suite_rfc_name \in DOMAIN _RFC_NAME_TO_KEY_SIZE_MAPPING
  THEN [raised |-> FALSE, value |-> _RFC_NAME_TO_KEY_SIZE_MAPPING[cipher_suite_rfc_name]]
  ELSE [raised |-> FALSE, value |-> 0]

\* lines 596 and 621: _RFC_NAME_TO_KEY_SIZE_MAPPING[cipher_suite_rfc_name]
KeySize(cipher_suite_rfc_name) ==
  GetItem(_RFC_NAME_TO_KEY_SIZE_MAPPING, cipher_suite_rfc_name)

\* mutant: the marker looked for in capitals
IsAnonymousUpperCase(cipher_suite_rfc_name) == Contains(cipher_suite_rfc_name, "ANON")

\* lines 595 and 620: "anon" in cipher_suite_rfc_name
IsAnonymous(cipher_suite_rfc_name) == Contains(cipher_suite_rfc_name, "anon")

\* one of the lookups of the loop body raises KeyError for this name
RaisesKeyError(tls_version, cipher_suite_openssl_name) ==
  \/ RfcName(tls_version, cipher_suite_openssl_name).raised
  \/ KeySize(RfcName(tls_version, cipher_suite_openssl_name).value).raised

\* the record of lines 592-597 and 617-622
TranslateCipherSuite(tls_version, cipher_suite_openssl_name) ==
  LET cipher_suite_rfc_name == RfcName(tls_version, cipher_suite_openssl_name).value
  IN  CipherSuite(cipher_suite_rfc_name,
                  cipher_suite_openssl_name,
                  IF IsAnonymous(cipher_suite_rfc_name) THEN TRUE ELSE FALSE,
                  KeySize(cipher_suite_rfc_name).value)

\* mutant: no name is skipped
NotIgnoredNothing(names) == names

\* the names the loop of line 610 translates: line 612 skips the TLS 1.3 names
NotIgnored(names) == {n \in names : n \notin Range(_TLS_1_3_CIPHER_SUITES)}

\* mutant: the comprehension misses the last name of the list
Tls13CipherSuitesButLast ==
  {CipherSuite(_TLS_1_3_CIPHER_SUITES[i], _TLS_1_3_CIPHER_SUITES[i], FALSE,
               _RFC_NAME_TO_KEY_SIZE_MAPPING[_TLS_1_3_CIPHER_SUITES[i]])
     : i \in 1..(Len(_TLS_1_3_CIPHER_SUITES) - 1)}

\* the set comprehension of lines 626-635
Tls13CipherSuites ==
  {CipherSuite(cipher_suite_name, cipher_suite_name, FALSE,
               _RFC_NAME_TO_KEY_SIZE_MAPPING[cipher_suite_name])
     : cipher_suite_name \in Range(_TLS_1_3_CIPHER_SUITES)}

(***************************************************************************)
(* The execution of the module: the class body of CipherSuitesRepository   *)
(* calls _parse_all_cipher_suites (line 642).                              *)
(***************************************************************************)
\* mutant: the exception is swallowed and the dict built so far is returned
RaiseKeepsPartialDict(exception) ==
  /\ pc' = "ready"
  /\ error' = exception
  /\ idx' = 0
  /\ _ALL_CIPHER_SUITES' = tls_version_to_cipher_suites
  /\ tls_version_to_cipher_suites' = EmptyDict
  /\ openssl_cipher_strings' = {}
  /\ cipher_suites_from_legacy_openssl' = {}
  /\ cipher_suites_from_modern_openssl' = {}
  /\ UNCHANGED <<engine, requests, lookup, result>>

\* an exception leaves _parse_all_cipher_suites and the class body: the frame
\* and its dict are gone and CipherSuitesRepository is never bound
Raise(exception) ==
  /\ pc' = "failed"
  /\ error' = exception
  /\ idx' = 0
  /\ tls_version_to_cipher_suites' = EmptyDict
  /\ openssl_cipher_strings' = {}
  /\ cipher_suites_from_legacy_openssl' = {}
  /\ cipher_suites_from_modern_openssl' = {}
  /\ UNCHANGED <<engine, requests, _ALL_CIPHER_SUITES, lookup, result>>

\* the request of lines 572-575 (and 603-605) as the build logs it
Request(client, tls_version) == <<client, tls_version, CIPHER_LIST>>

\* the threads of the process that import the module
Readers == 1..NumReaders

\* the module starts to execute, imported by thread 1, the OpenSSL builds
\* being one of `engines`
Start(engines) ==
  /\ engine \in engines
  /\ pc = "enumerate"
  /\ idx = 1
  /\ requests = <<>>
  /\ tls_version_to_cipher_suites = EmptyDict
  /\ openssl_cipher_strings = {}
  /\ cipher_suites_from_legacy_openssl = {}
  /\ cipher_suites_from_modern_openssl = {}
  /\ _ALL_CIPHER_SUITES = EmptyDict
  /\ lookup = "none"
  /\ result = {}
  /\ error = "none"
  /\ previous = EmptyDict
  /\ threads = [t \in Readers |-> IF t = 1 THEN "loading" ELSE "start"]
  /\ runs = 1

Init == Start(Engines(EngineNames, MaxEnumerated))

\* mutant: the answer is added to the names the previous pass of the loop left
EnumerateLegacyKeepsNames ==
  /\ pc = "enumerate"
  /\ UNCHANGED <<previous, threads, runs>>
  /\ \/ /\ openssl_cipher_strings' =
             openssl_cipher_strings \cup engine[<<LEGACY, LOOP_VERSIONS[idx]>>]
        /\ requests' = Append(requests, Request(LEGACY, LOOP_VERSIONS[idx]))
        /\ pc' = "translate"
        /\ UNCHANGED <<idx, engine, tls_version_to_cipher_suites,
                       cipher_suites_from_legacy_openssl, cipher_suites_from_modern_openssl,
                       _ALL_CIPHER_SUITES, lookup, result, error>>
     \/ Raise("EngineError")

\* line 587: _parse_all_cipher_suites_with_legacy_openssl(tls_version)
EnumerateLegacy ==
  /\ pc = "enumerate"
  /\ UNCHANGED <<previous, threads, runs>>
  /\ \/ /\ openssl_cipher_strings' = engine[<<LEGACY, LOOP_VERSIONS[idx]>>]
        /\ requests' = Append(requests, Request(LEGACY, LOOP_VERSIONS[idx]))
        /\ pc' = "translate"
        /\ UNCHANGED <<idx, engine, tls_version_to_cipher_suites,
                       cipher_suites_from_legacy_openssl, cipher_suites_from_modern_openssl,
                       _ALL_CIPHER_SUITES, lookup, result, error>>
     \/ Raise("EngineError")   \* line 572: the client cannot be created

\* lines 588-598
TranslateVersion ==
  /\ pc = "translate"
  /\ UNCHANGED <<previous, threads, runs>>
  /\ LET tls_version == LOOP_VERSIONS[idx]
     IN  IF \E n \in openssl_cipher_strings : RaisesKeyError(tls_version, n)
         THEN Raise("KeyError")
         ELSE /\ tls_version_to_cipher_suites' =
                   DictSet(tls_version_to_cipher_suites, tls_version,
                           {TranslateCipherSuite(tls_version, n) : n \in openssl_cipher_strings})
              /\ pc' = "enumerate_legacy_1_2"
              /\ UNCHANGED <<idx, engine, requests, openssl_cipher_strings,
                             cipher_suites_from_legacy_openssl,
                             cipher_suites_from_modern_openssl,
                             _ALL_CIPHER_SUITES, lookup, result, error>>

\* line 601
EnumerateLegacy12 ==
  /\ pc = "enumerate_legacy_1_2"
  /\ UNCHANGED <<previous, threads, runs>>
  /\ \/ /\ cipher_suites_from_legacy_openssl' = engine[<<LEGACY, TLS_1_2>>]
        /\ requests' = Append(requests, Request(LEGACY, TLS_1_2))
        /\ pc' = "enumerate_modern_1_2"
        /\ UNCHANGED <<idx, engine, tls_version_to_cipher_suites, openssl_cipher_strings,
                       cipher_suites_from_modern_openssl,
                       _ALL_CIPHER_SUITES, lookup, result, error>>
     \/ Raise("EngineError")

\* lines 603-605
EnumerateModern12 ==
  /\ pc = "enumerate_modern_1_2"
  /\ UNCHANGED <<previous, threads, runs>>
  /\ \/ /\ cipher_suites_from_modern_openssl' = engine[<<MODERN, TLS_1_2>>]
        /\ requests' = Append(requests, Request(MODERN, TLS_1_2))
        /\ pc' = "translate_1_2"
        /\ UNCHANGED <<idx, engine, tls_version_to_cipher_suites, openssl_cipher_strings,
                       cipher_suites_from_legacy_openssl,
                       _ALL_CIPHER_SUITES, lookup, result, error>>
     \/ Raise("EngineError")

\* lines 608-623
TranslateTls12 ==
  /\ pc = "translate_1_2"
  /\ UNCHANGED <<previous, threads, runs>>
  /\ LET union == cipher_suites_from_legacy_openssl \cup cipher_suites_from_modern_openssl
     IN  IF \E n \in NotIgnored(union) : RaisesKeyError(TLS_1_2, n)
         THEN Raise("KeyError")
         ELSE /\ openssl_cipher_strings' = union
              /\ tls_version_to_cipher_suites' =
                   DictSet(tls_version_to_cipher_suites, TLS_1_2,
                           {TranslateCipherSuite(TLS_1_2, n) : n \in NotIgnored(union)})
              /\ pc' = "tls_1_3"
              /\ UNCHANGED <<idx, engine, requests, cipher_suites_from_legacy_openssl,
                             cipher_suites_from_modern_openssl,
                             _ALL_CIPHER_SUITES, lookup, result, error>>

\* mutant: the hardcoded set is stored under the TLS 1.2 key
BuildTls13UnderTls12Key ==
  /\ pc = "tls_1_3"
  /\ UNCHANGED <<previous, threads, runs>>
  /\ tls_version_to_cipher_suites' =
       DictSet(tls_version_to_cipher_suites, TLS_1_2, Tls13CipherSuites)
  /\ IF idx < Len(LOOP_VERSIONS)
     THEN idx' = idx + 1 /\ pc' = "enumerate"
     ELSE idx' = idx /\ pc' = "return"
  /\ UNCHANGED <<engine, requests, openssl_cipher_strings, cipher_suites_from_legacy_openssl,
                 cipher_suites_from_modern_openssl, _ALL_CIPHER_SUITES, lookup, result, error>>

\* lines 626-635, and the for loop of line 581 takes its next element or ends
BuildTls13 ==
  /\ pc = "tls_1_3"
  /\ UNCHANGED <<previous, threads, runs>>
  /\ tls_version_to_cipher_suites' =
       DictSet(tls_version_to_cipher_suites, TLS_1_3, Tls13CipherSuites)
  /\ IF idx < Len(LOOP_VERSIONS)
     THEN idx' = idx + 1 /\ pc' = "enumerate"
     ELSE idx' = idx /\ pc' = "return"
  /\ UNCHANGED <<engine, requests, openssl_cipher_strings, cipher_suites_from_legacy_openssl,
                 cipher_suites_from_modern_openssl, _ALL_CIPHER_SUITES, lookup, result, error>>

\* line 637 returns the dict and line 642 binds it to the class attribute
Return ==
  /\ pc = "return"
  /\ UNCHANGED <<previous, threads, runs>>
  /\ _ALL_CIPHER_SUITES' = tls_version_to_cipher_suites
  /\ pc' = "ready"
  /\ idx' = 0
  /\ tls_version_to_cipher_suites' = EmptyDict
  /\ openssl_cipher_strings' = {}
  /\ cipher_suites_from_legacy_openssl' = {}
  /\ cipher_suites_from_modern_openssl' = {}
  /\ UNCHANGED <<engine, requests, lookup, result, error>>

\* mutant: the lookup asks the legacy OpenSSL build again before it answers
LookupEnumeratesAgain(tls_version) ==
  /\ pc = "ready"
  /\ UNCHANGED <<previous, threads, runs>>
  /\ lookup' = tls_version
  /\ requests' = IF Len(requests) < 2 * Len(LOOP_VERSIONS) * 3
                 THEN Append(requests, Request(LEGACY, tls_version))
                 ELSE requests
  /\ IF tls_version \in DOMAIN _ALL_CIPHER_SUITES
     THEN result' = _ALL_CIPHER_SUITES[tls_version] /\ error' = error
     ELSE result' = {} /\ error' = "KeyError"
  /\ UNCHANGED <<pc, idx, engine, tls_version_to_cipher_suites,
                 openssl_cipher_strings, cipher_suites_from_legacy_openssl,
                 cipher_suites_from_modern_openssl, _ALL_CIPHER_SUITES>>

\* mutant: the lookup hands its set over and keeps an empty one (dict.pop with
\* a fresh set put back)
LookupPopsTheSet(tls_version) ==
  /\ pc = "ready"
  /\ UNCHANGED <<previous, threads, runs>>
  /\ lookup' = tls_version
  /\ IF tls_version \in DOMAIN _ALL_CIPHER_SUITES
     THEN /\ result' = _ALL_CIPHER_SUITES[tls_version]
          /\ _ALL_CIPHER_SUITES' = DictSet(_ALL_CIPHER_SUITES, tls_version, {})
          /\ error' = error
     ELSE /\ result' = {}
          /\ _ALL_CIPHER_SUITES' = _ALL_CIPHER_SUITES
          /\ error' = "KeyError"
  /\ UNCHANGED <<pc, idx, engine, requests, tls_version_to_cipher_suites,
                 openssl_cipher_strings, cipher_suites_from_legacy_openssl,
                 cipher_suites_from_modern_openssl>>

\* lines 644-648: CipherSuitesRepository.get_all_cipher_suites(tls_version)
get_all_cipher_suites(tls_version) ==
  /\ pc = "ready"
  /\ UNCHANGED <<previous, threads, runs>>
  /\ lookup' = tls_version
  /\ IF tls_version \in DOMAIN _ALL_CIPHER_SUITES
     THEN result' = _ALL_CIPHER_SUITES[tls_version] /\ error' = error
     ELSE result' = {} /\ error' = "KeyError"
  /\ UNCHANGED <<pc, idx, engine, requests, tls_version_to_cipher_suites,
                 openssl_cipher_strings, cipher_suites_from_legacy_openssl,
                 cipher_suites_from_modern_openssl, _ALL_CIPHER_SUITES>>

Lookup == \E tls_version \in TlsVersionEnum : get_all_cipher_suites(tls_version)

Next ==
  \/ EnumerateLegacy
  \/ TranslateVersion
  \/ EnumerateLegacy12
  \/ EnumerateModern12
  \/ TranslateTls12
  \/ BuildTls13
  \/ Return
  \/ Lookup

Spec == Init /\ [][Next]_vars

(***************************************************************************)
(* SpecTables: the same execution, where one answer of an OpenSSL build    *)
(* holds any one name of the whole tables, alone or beside names of        *)
(* EngineNames (MaxStrings names in all), and the other answers are empty. *)
(***************************************************************************)
TableAnswers ==
  {{}} \cup {{n} \cup T : n \in AllNativeNames, T \in BoundedSubsets(EngineNames, MaxStrings - 1)}

OneAnswerEngines ==
  {[NoCiphers EXCEPT ![c] = S] : c \in Calls, S \in TableAnswers}

InitTables == Start(OneAnswerEngines)

SpecTables == InitTables /\ [][Next]_vars

(***************************************************************************)
(* SpecRestart: the program is run again.  The process ends after the      *)
(* module was executed, and a new process with the same OpenSSL builds     *)
(* executes the module again; `previous` keeps the class attribute of the   *)
(* process that ended.                                                     *)
(***************************************************************************)
\* the names of the module as a process finds them when it starts to execute it
ModuleUnbound ==
  /\ pc' = "enumerate"
  /\ idx' = 1
  /\ requests' = <<>>
  /\ tls_version_to_cipher_suites' = EmptyDict
  /\ openssl_cipher_strings' = {}
  /\ cipher_suites_from_legacy_openssl' = {}
  /\ cipher_suites_from_modern_openssl' = {}
  /\ _ALL_CIPHER_SUITES' = EmptyDict
  /\ error' = "none"
  /\ UNCHANGED engine

Restart ==
  /\ pc = "ready"
  /\ previous' = _ALL_CIPHER_SUITES
  /\ ModuleUnbound
  /\ lookup' = "none"
  /\ result' = {}
  /\ threads' = [t \in Readers |-> IF t = 1 THEN "loading" ELSE "start"]
  /\ runs' = 1

NextRestart ==
  \/ Next
  \/ Restart

SpecRestart == Init /\ [][NextRestart]_vars

(***************************************************************************)
(* SpecCallers: get_all_cipher_suites returns the set object the class     *)
(* attribute holds (line 648 makes no copy, and the sets of lines 589 and   *)
(* 609 are of the mutable type `set`), so what a caller does to the set it  *)
(* received is done to the catalog.                                        *)
(***************************************************************************)
\* a caller calls clear() on the set the last call returned
CallerClears ==
  /\ pc = "ready"
  /\ lookup \in DOMAIN _ALL_CIPHER_SUITES
  /\ result # {}
  /\ result' = {}
  /\ _ALL_CIPHER_SUITES' = DictSet(_ALL_CIPHER_SUITES, lookup, {})
  /\ UNCHANGED <<pc, idx, engine, requests, tls_version_to_cipher_suites,
                 openssl_cipher_strings, cipher_suites_from_legacy_openssl,
                 cipher_suites_from_modern_openssl, lookup, error,
                 previous, threads, runs>>

NextCallers ==
  \/ Next
  \/ CallerClears

SpecCallers == Init /\ [][NextCallers]_vars

(***************************************************************************)
(* SpecReaders: the threads of one process import the module and call      *)
(* get_all_cipher_suites.  The class body (lines 640-642) runs as part of   *)
(* the execution of the module by the thread that imports it first; the     *)
(* import system has the other threads wait for the end of that execution, *)
(* and a module whose execution raised is not kept, so that the next import *)
(* executes it again.                                                      *)
(***************************************************************************)
\* mutant: an import does not wait for an execution in progress
ImportWithoutLock(t) ==
  /\ threads[t] = "start"
  /\ IF pc = "ready"
     THEN /\ threads' = [threads EXCEPT ![t] = "imported"]
          /\ UNCHANGED <<pc, idx, engine, requests, tls_version_to_cipher_suites,
                         openssl_cipher_strings, cipher_suites_from_legacy_openssl,
                         cipher_suites_from_modern_openssl, _ALL_CIPHER_SUITES,
                         error, runs>>
     ELSE /\ threads' = [threads EXCEPT ![t] = "loading"]
          /\ runs' = runs + 1
          /\ ModuleUnbound
  /\ UNCHANGED <<lookup, result, previous>>

\* thread t executes the import statement of the module
Import(t) ==
  /\ threads[t] = "start"
  /\ \/ pc = "ready"
     \/ pc = "failed" /\ \A u \in Readers : threads[u] # "loading"
  /\ IF pc = "ready"
     THEN /\ threads' = [threads EXCEPT ![t] = "imported"]
          /\ UNCHANGED <<pc, idx, engine, requests, tls_version_to_cipher_suites,
                         openssl_cipher_strings, cipher_suites_from_legacy_openssl,
                         cipher_suites_from_modern_openssl, _ALL_CIPHER_SUITES,
                         error, runs>>
     ELSE /\ threads' = [threads EXCEPT ![t] = "loading"]
          /\ runs' = runs + 1
          /\ ModuleUnbound
  /\ UNCHANGED <<lookup, result, previous>>

\* the import statement of the thread that executed the module ends: with the
\* module, or with the exception that left the class body
ImportEnds(t) ==
  /\ threads[t] = "loading"
  /\ pc \in {"ready", "failed"}
  /\ threads' = [threads EXCEPT ![t] = IF pc = "ready" THEN "imported" ELSE "raised"]
  /\ UNCHANGED <<pc, idx, engine, requests, tls_version_to_cipher_suites,
                 openssl_cipher_strings, cipher_suites_from_legacy_openssl,
                 cipher_suites_from_modern_openssl, _ALL_CIPHER_SUITES,
                 lookup, result, error, previous, runs>>

\* a thread that has the module calls get_all_cipher_suites
ReaderLookup(t) ==
  /\ threads[t] = "imported"
  /\ Lookup

Readers_Import == \E t \in Readers : Import(t)
Readers_ImportEnds == \E t \in Readers : ImportEnds(t)
Readers_Lookup == \E t \in Readers : ReaderLookup(t)

NextReaders ==
  \/ EnumerateLegacy
  \/ TranslateVersion
  \/ EnumerateLegacy12
  \/ EnumerateModern12
  \/ TranslateTls12
  \/ BuildTls13
  \/ Return
  \/ Readers_Import
  \/ Readers_ImportEnds
  \/ Readers_Lookup

SpecReaders == Init /\ [][NextReaders]_vars

(***************************************************************************)
(* Properties.                                                             *)
(***************************************************************************)
\* every set held for tls_version: in the dict under construction, in the
\* class attribute, and as returned by the last get_all_cipher_suites call
SetsOf(tls_version) ==
  {d[tls_version] : d \in {x \in {tls_version_to_cipher_suites, _ALL_CIPHER_SUITES} :
                             tls_version \in DOMAIN x}}
    \cup (IF lookup = tls_version THEN {result} ELSE {})

\* the names of an answer that the loop body translates
Translated(call) ==
  IF call[2] = TLS_1_2 THEN NotIgnored(engine[call]) ELSE engine[call]

\* C1: no two records of the set get_all_cipher_suites returns for a version
\* have the same canonical name (one record per canonical name, also when two
\* native names of the version map to that canonical name).
C1_NoCanonicalNameTwice ==
  lookup # "none" => \A a, b \in result : a.name = b.name => a = b

\* C2 as stated: the SSLv2 set holds no anonymous record and no record whose
\* key size is outside {40, 56, 64, 128, 168}.
C2_Sslv2KeySizesAsStated ==
  \A S \in SetsOf(SSL_2_0) : \A s \in S :
    ~s.is_anonymous /\ s.key_size \in {40, 56, 64, 128, 168}

\* C2 amended: the SSLv2 set holds no anonymous record and no record whose key
\* size is outside {0, 40, 56, 64, 128, 168}; key size 0 is that of NULL-MD5
\* alone, and no SSLv2 record has key size 256.
C2_Sslv2KeySizes ==
  \A S \in SetsOf(SSL_2_0) : \A s \in S :
    /\ ~s.is_anonymous
    /\ s.key_size \in {0, 40, 56, 64, 128, 168}
    /\ s.key_size = 0 <=> s.openssl_name = "NULL-MD5"

\* C2 witness: get_all_cipher_suites(SSL_2_0) returned a record of key size 0
C2_Witness ==
  lookup = SSL_2_0 /\ \E s \in result : s.key_size = 0

\* C3: translating a native name that is a key of its version's table never
\* fails on the key-size lookup: a KeyError of the build is always the miss of
\* an enumerated name in its version's native-to-canonical table.
C3_KeySizeTableCoversTables ==
  (pc = "failed" /\ error = "KeyError") =>
    \E c \in Calls : \E n \in Translated(c) :
      n \notin DOMAIN _OPENSSL_TO_RFC_NAMES_MAPPING[c[2]]

\* C4: every record of every version's set has a key size among
\* 0, 40, 56, 64, 128, 168, 256.
C4_KeySizeValues ==
  \A v \in TlsVersionEnum : \A S \in SetsOf(v) : \A s \in S :
    s.key_size \in {0, 40, 56, 64, 128, 168, 256}

\* C4 witness: get_all_cipher_suites returned a record of key size 64
C4_Witness ==
  lookup # "none" /\ \E s \in result : s.key_size = 64

\* C5: in every version's set, is_anonymous is true exactly for the records
\* whose canonical name contains "anon".
C5_AnonymousIffMarker ==
  \A v \in TlsVersionEnum : \A S \in SetsOf(v) : \A s \in S :
    s.is_anonymous <=> (\E i \in 1..Len(s.name) :
                           i + 3 <= Len(s.name) /\ SubSeq(s.name, i, i + 3) = "anon")

\* C5 witness: get_all_cipher_suites returned an anonymous record
C5_Witness ==
  lookup # "none" /\ \E s \in result : s.is_anonymous

\* the five records of TLS 1.3
ExpectedTls13Set ==
  { [name |-> "TLS_AES_128_GCM_SHA256", openssl_name |-> "TLS_AES_128_GCM_SHA256",
     is_anonymous |-> FALSE, key_size |-> 128],
    [name |-> "TLS_AES_128_CCM_SHA256", openssl_name |-> "TLS_AES_128_CCM_SHA256",
     is_anonymous |-> FALSE, key_size |-> 128],
    [name |-> "TLS_AES_256_GCM_SHA384", openssl_name |-> "TLS_AES_256_GCM_SHA384",
     is_anonymous |-> FALSE, key_size |-> 256],
    [name |-> "TLS_AES_128_CCM_8_SHA256", openssl_name |-> "TLS_AES_128_CCM_8_SHA256",
     is_anonymous |-> FALSE, key_size |-> 128],
    [name |-> "TLS_CHACHA20_POLY1305_SHA256", openssl_name |-> "TLS_CHACHA20_POLY1305_SHA256",
     is_anonymous |-> FALSE, key_size |-> 256] }

\* C6: after a successful build the TLS 1.3 set is exactly the five records of
\* the fixed list, each with native name = canonical name, is_anonymous false
\* and the key size of the global table, whatever the OpenSSL builds answered;
\* no request is ever made for TLS 1.3.
C6_Tls13Set ==
  /\ \A i \in DOMAIN requests : requests[i][2] # TLS_1_3
  /\ pc = "ready" =>
       /\ _ALL_CIPHER_SUITES[TLS_1_3] = ExpectedTls13Set
       /\ Cardinality(_ALL_CIPHER_SUITES[TLS_1_3]) = 5
       /\ \A s \in _ALL_CIPHER_SUITES[TLS_1_3] :
            s.key_size = _RFC_NAME_TO_KEY_SIZE_MAPPING[s.name]
       /\ lookup = TLS_1_3 => result = ExpectedTls13Set

\* C6 witness: get_all_cipher_suites(TLS_1_3) returned after a build in which
\* an OpenSSL build answered with a TLS 1.3 name
C6_Witness ==
  /\ pc = "ready"
  /\ lookup = TLS_1_3
  /\ \E c \in Calls : engine[c] \cap Range(_TLS_1_3_CIPHER_SUITES) # {}

\* C7: the TLS 1.2 set holds no record whose canonical name is one of the five
\* TLS 1.3 names, whatever the two OpenSSL builds answered.
C7_NoTls13NameInTls12 ==
  \A S \in SetsOf(TLS_1_2) : \A s \in S :
    s.name \notin Range(_TLS_1_3_CIPHER_SUITES)

\* C7 witness: get_all_cipher_suites(TLS_1_2) returned a record after an
\* OpenSSL build answered for TLS 1.2 with a TLS 1.3 name
C7_Witness ==
  /\ lookup = TLS_1_2
  /\ result # {}
  /\ \E c \in {<<LEGACY, TLS_1_2>>, <<MODERN, TLS_1_2>>} :
       engine[c] \cap Range(_TLS_1_3_CIPHER_SUITES) # {}

\* a name with no entry in the version's table, or whose canonical name has no
\* entry in the key-size table
Unmapped(tls_version, n) ==
  \/ n \notin DOMAIN _OPENSSL_TO_RFC_NAMES_MAPPING[tls_version]
  \/ _OPENSSL_TO_RFC_NAMES_MAPPING[tls_version][n] \notin DOMAIN _RFC_NAME_TO_KEY_SIZE_MAPPING

\* C8: when an enumerated, non-excluded native name has no entry in its
\* version's table or its canonical name no key size, the build ends with an
\* error and no catalog; a successful build has, for every enumerated,
\* non-excluded native name, the record of its table entries.
C8_MappingMissFailsBuild ==
  /\ (\E c \in Calls : \E n \in Translated(c) : Unmapped(c[2], n)) =>
       /\ pc \notin {"return", "ready"}
       /\ _ALL_CIPHER_SUITES = EmptyDict
       /\ lookup = "none"
  /\ pc = "failed" => error \in {"KeyError", "EngineError"}
  /\ pc = "ready" =>
       \A c \in Calls : \A n \in Translated(c) :
         \E s \in _ALL_CIPHER_SUITES[c[2]] :
           /\ s.openssl_name = n
           /\ s.name = _OPENSSL_TO_RFC_NAMES_MAPPING[c[2]][n]
           /\ s.key_size = _RFC_NAME_TO_KEY_SIZE_MAPPING[s.name]

\* C8 witness: the build failed with KeyError on a name whose canonical name
\* has no key size
C8_Witness ==
  /\ pc = "failed"
  /\ error = "KeyError"
  /\ \E c \in Calls : \E n \in Translated(c) :
       /\ n \in DOMAIN _OPENSSL_TO_RFC_NAMES_MAPPING[c[2]]
       /\ _OPENSSL_TO_RFC_NAMES_MAPPING[c[2]][n] \notin DOMAIN _RFC_NAME_TO_KEY_SIZE_MAPPING

\* C9: get_all_cipher_suites returns only from a catalog built for all the
\* versions; while the build runs and after it failed no catalog is visible
\* and no lookup is served.
C9_NoPartialCatalog ==
  /\ pc # "ready" =>
       /\ _ALL_CIPHER_SUITES = EmptyDict
       /\ lookup = "none"
       /\ result = {}
  /\ _ALL_CIPHER_SUITES # EmptyDict =>
       /\ pc = "ready"
       /\ DOMAIN _ALL_CIPHER_SUITES = TlsVersionEnum
       /\ Len(requests) >= Cardinality(Calls)

\* C9 witness: the build failed after the set of the first version was stored
C9_Witness ==
  /\ pc = "failed"
  /\ Len(requests) >= 2

\* C10: the catalog of a successful build has exactly the six versions as
\* its keys, and get_all_cipher_suites returns the set of its version without
\* error for each of them.
C10_SixVersions ==
  pc = "ready" =>
    /\ DOMAIN _ALL_CIPHER_SUITES =
         {"SSL_2_0", "SSL_3_0", "TLS_1_0", "TLS_1_1", "TLS_1_2", "TLS_1_3"}
    /\ error = "none"
    /\ lookup # "none" => result = _ALL_CIPHER_SUITES[lookup]

\* C10 witness: get_all_cipher_suites(SSL_2_0) returned a record
C10_Witness ==
  /\ pc = "ready"
  /\ lookup = SSL_2_0
  /\ result # {}
  /\ error = "none"

\* C11: once the catalog is built, a step leaves the requests made to the
\* OpenSSL builds as they were when the build finished, and every
\* get_all_cipher_suites call returns the set the catalog holds for its version.
C11_LookupsUseTheCache ==
  [][pc = "ready" =>
       /\ requests' = requests
       /\ lookup' \in TlsVersionEnum => result' = _ALL_CIPHER_SUITES[lookup']]_vars

\* C11 witness: get_all_cipher_suites returned a record after a build that
\* made its requests
C11_Witness ==
  /\ pc = "ready"
  /\ lookup # "none"
  /\ result # {}
  /\ Len(requests) > 0

C13_CatalogNeverChanges ==
  [][(pc = "ready" /\ pc' = "ready") => _ALL_CIPHER_SUITES' = _ALL_CIPHER_SUITES]_vars

\* C14 as stated: a version that the native-to-canonical tables do not have
\* makes the build fail, so that no lookup is ever served for it.
C14_AbsentVersionFailsBuild ==
  \A v \in TlsVersionEnum :
    v \notin DOMAIN _OPENSSL_TO_RFC_NAMES_MAPPING => (pc # "ready" /\ lookup # v)

\* C14 amended: the one version the native-to-canonical tables do not have is
\* TLS 1.3; the build reports no error for it, and a lookup for it returns the
\* five records of the fixed list, never an empty set and never an error.  No
\* lookup raises: KeyError is only ever the end of the build.
C14_AbsentVersionServed ==
  /\ TlsVersionEnum \ DOMAIN _OPENSSL_TO_RFC_NAMES_MAPPING = {TLS_1_3}
  /\ (lookup # "none" /\ lookup \notin DOMAIN _OPENSSL_TO_RFC_NAMES_MAPPING) =>
       /\ pc = "ready"
       /\ error = "none"
       /\ Cardinality(result) = Len(_TLS_1_3_CIPHER_SUITES)
  /\ lookup # "none" => error = "none"
  /\ error = "KeyError" => (pc = "failed" /\ lookup = "none")

\* C14 witness: get_all_cipher_suites(TLS_1_3) returned
C14_Witness ==
  /\ pc = "ready"
  /\ lookup = TLS_1_3
  /\ lookup \notin DOMAIN _OPENSSL_TO_RFC_NAMES_MAPPING
  /\ result # {}

\* C15: the build makes each request at most once, a successful build has
\* made exactly the six requests (LegacySslClient for SSL 2.0, SSL 3.0,
\* TLS 1.0, TLS 1.1 and TLS 1.2, SslClient for TLS 1.2), none is for TLS 1.3
\* and all carry the cipher string "ALL:COMPLEMENTOFALL:-PSK:-SRP".
C15_SixRequests ==
  /\ \A i \in DOMAIN requests :
       /\ requests[i][3] = "ALL:COMPLEMENTOFALL:-PSK:-SRP"
       /\ requests[i][2] # TLS_1_3
       /\ <<requests[i][1], requests[i][2]>> \in Calls
  /\ \A i, j \in DOMAIN requests : requests[i] = requests[j] => i = j
  /\ pc = "ready" =>
       /\ Len(requests) = 6
       /\ {<<requests[i][1], requests[i][2]>> : i \in DOMAIN requests} = Calls

\* the record of native name n under the table of tls_version
RecordOf(tls_version, n) ==
  [name |-> _OPENSSL_TO_RFC_NAMES_MAPPING[tls_version][n],
   openssl_name |-> n,
   is_anonymous |-> Contains(_OPENSSL_TO_RFC_NAMES_MAPPING[tls_version][n], "anon"),
   key_size |-> _RFC_NAME_TO_KEY_SIZE_MAPPING[_OPENSSL_TO_RFC_NAMES_MAPPING[tls_version][n]]]

\* C16: after a successful build the set of each of SSL 2.0, SSL 3.0, TLS 1.0
\* and TLS 1.1 is exactly the set of the records of the names LegacySslClient
\* answered for that version, one record per name, whatever was answered for
\* the other versions and by SslClient.
C16_LegacyVersionSets ==
  pc = "ready" =>
    \A v \in {SSL_2_0, SSL_3_0, TLS_1_0, TLS_1_1} :
      /\ _ALL_CIPHER_SUITES[v] = {RecordOf(v, n) : n \in engine[<<LEGACY, v>>]}
      /\ Cardinality(_ALL_CIPHER_SUITES[v]) = Cardinality(engine[<<LEGACY, v>>])

\* C16 witness: get_all_cipher_suites(SSL_3_0) returned a record after a build
\* in which SslClient answered with another name for TLS 1.2
C16_Witness ==
  /\ pc = "ready"
  /\ lookup = SSL_3_0
  /\ result # {}
  /\ engine[<<MODERN, TLS_1_2>>] # {}
  /\ engine[<<MODERN, TLS_1_2>>] \cap engine[<<LEGACY, SSL_3_0>>] = {}

\* C17: after a successful build the TLS 1.2 set is exactly the set of the
\* records of the names of the two answers for TLS 1.2 together, the five TLS
\* 1.3 names left out, one record per name; and a KeyError of the build is
\* never due to a TLS 1.3 name in the answers for TLS 1.2: some name answered
\* for an earlier version, or some other name answered for TLS 1.2, is unmapped.
C17_Tls12Set ==
  LET L == engine[<<LEGACY, TLS_1_2>>]
      M == engine[<<MODERN, TLS_1_2>>]
      kept == (L \cup M) \ {"TLS_CHACHA20_POLY1305_SHA256", "TLS_AES_256_GCM_SHA384",
                            "TLS_AES_128_GCM_SHA256", "TLS_AES_128_CCM_8_SHA256",
                            "TLS_AES_128_CCM_SHA256"}
  IN  /\ pc = "ready" =>
           /\ _ALL_CIPHER_SUITES[TLS_1_2] = {RecordOf(TLS_1_2, n) : n \in kept}
           /\ Cardinality(_ALL_CIPHER_SUITES[TLS_1_2]) = Cardinality(kept)
      /\ (pc = "failed" /\ error = "KeyError") =>
           \/ \E n \in kept : Unmapped(TLS_1_2, n)
           \/ \E v \in {SSL_2_0, SSL_3_0, TLS_1_0, TLS_1_1} :
                \E n \in engine[<<LEGACY, v>>] : Unmapped(v, n)

\* C17 witness: get_all_cipher_suites(TLS_1_2) returned the record of a name
\* that LegacySslClient alone answered, SslClient having answered with a TLS
\* 1.3 name
C17_Witness ==
  /\ pc = "ready"
  /\ lookup = TLS_1_2
  /\ \E s \in result : /\ s.openssl_name \in engine[<<LEGACY, TLS_1_2>>]
                       /\ s.openssl_name \notin engine[<<MODERN, TLS_1_2>>]
  /\ engine[<<MODERN, TLS_1_2>>] \cap Range(_TLS_1_3_CIPHER_SUITES) # {}

\* the threads whose import statement ended with the exception of the build
Raised == {t \in Readers : threads[t] = "raised"}

====
